---- MODULE Spec2Model ----
(***************************************************************************)
(* State-synchronisation client of the NAX integration:                   *)
(* custom_components/nax/nax/nax_api.py (class NaxApi) and                 *)
(* custom_components/nax/nax/misc/custom_merger.py.                       *)
(*                                                                         *)
(* JSON values are tagged records [t, v]; Python None is the JSON null.    *)
(* Python str values are TLA+ strings, handled character by character      *)
(* with Len, SubSeq and \o.  A Python dict is a function from its keys to  *)
(* values; its iteration order is fixed by KeySeq.                         *)
(***************************************************************************)
EXTENDS Integers, Sequences, FiniteSets, TLC

VARIABLES
    http_fallback,             \* NaxApi._http_fallback
    json_state,                \* NaxApi._json_state
    held,                      \* the key paths at which the State Document points into a
                               \* message object received earlier
    data_subscriptions,        \* NaxApi._data_subscriptions: path -> list of callbacks
    connection_subscriptions,  \* NaxApi._connection_subscriptions
    ws_client_connected,       \* NaxApi._ws_client_connected
    ws_client,                 \* NaxApi._ws_client: "none" or "client"
    loginResponse,             \* NaxApi._loginResponse: "none", "ok", "error", "no_token", "redirect"
    ws_task,                   \* NaxApi._ws_task: "none" or "task"
    reader,                    \* where the __ws_handler task stands: "none", "start",
                               \* "recv", "done", "failed", "cancelled"
    reconnect_task,            \* where reconnect_coroutine stands: "none", "login",
                               \* "upgrade", "sleep", "done", "crashed"
    receive_data_buffer,       \* __ws_handler's accumulation buffer
    caller,                    \* where async_setup_entry stands: "login", "upgrade",
                               \* "ready", "not_ready"
    socket,                    \* the connection behind ws_client: "none", "open", "closed"
    wire,                      \* texts the device has still to deliver, one per socket read
    device_sent,               \* the values the device has serialized on this socket
    delivered,                 \* the frames the reader has handed to ingestion
    op,                        \* the last operation, its inputs, what it returned, the state it started
                               \* from, and whether it changed a message object received earlier
    calls,                     \* data callback invocations made by the last operation, in order
    notified,                  \* connection callback invocations made by the last operation, in order
    logged,                    \* log records written by the last operation, in order
    sent,                      \* outbound traffic of the last operation, in order
    raised,                    \* exception the last operation raised to its caller, or "none"
    hist,                      \* history of the connection life cycle
    locks,                     \* who holds _subscribe_data_lock, _subscribe_connection_lock
                               \* and _put_data_lock: a thread, a task, or "none"
    tasks                      \* where each concurrent caller of the client stands

vars == <<http_fallback, json_state, held, data_subscriptions,
          connection_subscriptions, ws_client_connected, ws_client,
          loginResponse, ws_task, reader, reconnect_task,
          receive_data_buffer, caller, socket, wire, device_sent, delivered,
          op, calls, notified, logged, sent, raised, hist, locks, tasks>>

dataVars == <<json_state, held, data_subscriptions>>
connVars == <<connection_subscriptions, ws_client_connected, ws_client,
              loginResponse, ws_task, reader, reconnect_task, caller, socket,
              hist>>
readerVars == <<receive_data_buffer, wire, device_sent, delivered>>

-----------------------------------------------------------------------------
(* JSON values *)

JInt(n) == [t |-> "int", v |-> n]
JNull == [t |-> "null", v |-> 0]
JStr(s) == [t |-> "str", v |-> s]
JDict(f) == [t |-> "dict", v |-> f]
JList(s) == [t |-> "list", v |-> s]

None == JNull

EmptyMap == [k \in {} |-> JNull]
EmptyDict == JDict(EmptyMap)

IsDict(x) == x.t = "dict"
IsList(x) == x.t = "list"

\* {k: v}
Obj1(k, v) == JDict([kk \in {k} |-> v])
\* {k1: v1, k2: v2}
Obj2(k1, v1, k2, v2) == JDict([kk \in {k1, k2} |-> IF kk = k1 THEN v1 ELSE v2])

\* The order in which a dict's keys are iterated.
RECURSIVE KeySeq(_)
KeySeq(S) ==
    IF S = {} THEN << >>
    ELSE LET k == CHOOSE x \in S : TRUE
         IN  <<k>> \o KeySeq(S \ {k})

RECURSIVE SeqContains(_, _)
SeqContains(s, x) ==
    IF s = << >> THEN FALSE
    ELSE IF Head(s) = x THEN TRUE ELSE SeqContains(Tail(s), x)

RECURSIVE CountIn(_, _)
CountIn(s, x) ==
    IF s = << >> THEN 0
    ELSE (IF Head(s) = x THEN 1 ELSE 0) + CountIn(Tail(s), x)

-----------------------------------------------------------------------------
(* Path Index: __get_json_paths and __get_value_by_json_path *)

\* str.split(sep) for a one-character separator.
RECURSIVE SplitFrom(_, _, _, _)
SplitFrom(s, sep, i, cur) ==
    IF i > Len(s) THEN <<cur>>
    ELSE IF SubSeq(s, i, i) = sep
         THEN <<cur>> \o SplitFrom(s, sep, i + 1, "")
         ELSE SplitFrom(s, sep, i + 1, cur \o SubSeq(s, i, i))

Split(s, sep) == SplitFrom(s, sep, 1, "")

\* new_path = f"{current_path}.{key}" if current_path else key
NewPath(current_path, key) ==
    IF current_path # "" THEN current_path \o "." \o key ELSE key

\* an enumeration that lists the top-level keys only
RECURSIVE GetJsonPathsKeys_NoDescent(_, _, _)
GetJsonPathsKeys_NoDescent(json_obj, current_path, keys) ==
    IF keys = << >> THEN << >>
    ELSE <<NewPath(current_path, Head(keys))>>
         \o GetJsonPathsKeys_NoDescent(json_obj, current_path, Tail(keys))

RECURSIVE GetJsonPathsKeys(_, _, _)
RECURSIVE GetJsonPaths(_, _)
\* the body of "for key, value in json_obj.items()"
GetJsonPathsKeys(json_obj, current_path, keys) ==
    IF keys = << >> THEN << >>
    ELSE LET key == Head(keys)
             value == json_obj.v[key]
             new_path == NewPath(current_path, key)
         IN  <<new_path>>
             \o (IF IsDict(value) THEN GetJsonPaths(value, new_path) ELSE << >>)
             \o GetJsonPathsKeys(json_obj, current_path, Tail(keys))

\* __get_json_paths(json_obj, current_path): the list of paths appended
GetJsonPaths(json_obj, current_path) ==
    GetJsonPathsKeys(json_obj, current_path, KeySeq(DOMAIN json_obj.v))

\* dict.get(part, None)
DictGet(d, part) == IF part \in DOMAIN d.v THEN d.v[part] ELSE None

RECURSIVE WalkParts(_, _)
WalkParts(json_obj, parts) ==
    IF parts = << >> THEN json_obj
    ELSE WalkParts(IF IsDict(json_obj) THEN DictGet(json_obj, Head(parts))
                   ELSE json_obj,
                   Tail(parts))

\* __get_value_by_json_path(json_obj, path)
GetValueByJsonPath(json_obj, path) == WalkParts(json_obj, Split(path, "."))

-----------------------------------------------------------------------------
(* Merge Engine: nax_custom_merger = Merger([(list, "append"),             *)
(* (dict, merge_dict), (set, "union")], ["override"], ["override"])        *)

RECURSIVE ValueStrategy(_, _)
RECURSIVE merge_dict(_, _)

\* Merger.value_strategy: the first type strategy whose type both values
\* have; otherwise the fallback or the type-conflict strategy, both
\* "override", which return nxt.  JSON has no sets.
ValueStrategy(base, nxt) ==
    IF IsList(base) /\ IsList(nxt) THEN JList(base.v \o nxt.v)
    ELSE IF IsDict(base) /\ IsDict(nxt) THEN merge_dict(base, nxt)
    ELSE nxt

\* merge_dict overwriting a key present on both sides instead of handing it
\* to the value strategy
merge_dict_NoRecursion(base, nxt) ==
    IF DOMAIN nxt.v = {} THEN base
    ELSE JDict([k \in DOMAIN base.v \cup DOMAIN nxt.v |->
                  IF k \notin DOMAIN nxt.v THEN base.v[k] ELSE nxt.v[k]])

\* merge_dict(config, path, base, nxt): base after the loop
merge_dict(base, nxt) ==
    IF DOMAIN nxt.v = {} THEN base
    ELSE JDict([k \in DOMAIN base.v \cup DOMAIN nxt.v |->
                  IF k \notin DOMAIN nxt.v THEN base.v[k]
                  ELSE IF k \notin DOMAIN base.v THEN nxt.v[k]
                  ELSE ValueStrategy(base.v[k], nxt.v[k])])

\* nax_custom_merger.merge(base, nxt): what the call returns
MergeReturn(base, nxt) == ValueStrategy(base, nxt)

\* the State Document rebound to what merge returns
Merge_AssignsReturn(base, nxt) == MergeReturn(base, nxt)

\* nax_custom_merger.merge(base, nxt): the dict base after the call.  Only
\* merge_dict changes base in place; an override returns nxt and leaves the
\* object base as it was.
Merge(base, nxt) ==
    IF IsDict(base) /\ IsDict(nxt) THEN merge_dict(base, nxt) ELSE base

-----------------------------------------------------------------------------
(* Observers.  A callback is known by its name.  Plain callbacks only      *)
(* record the call.  A callback of SelfUnsubscribing removes its own       *)
(* registration when invoked, as on_zones_data_update does.  A callback of *)
(* Raising raises when invoked.                                            *)

PlainCallbacks == {"C1", "C2"}
SelfUnsubscribing == {"U"}
Raising == {"R"}
Callbacks == PlainCallbacks \cup SelfUnsubscribing \cup Raising

\* a removal of every x from the list
RECURSIVE RemoveFirst_RemovesAll(_, _)
RemoveFirst_RemovesAll(s, x) ==
    IF s = << >> THEN << >>
    ELSE (IF Head(s) = x THEN << >> ELSE <<Head(s)>>)
         \o RemoveFirst_RemovesAll(Tail(s), x)

\* list.remove(x): the list without the first x
RECURSIVE RemoveFirst(_, _)
RemoveFirst(s, x) ==
    IF s = << >> THEN << >>
    ELSE IF Head(s) = x THEN Tail(s) ELSE <<Head(s)>> \o RemoveFirst(Tail(s), x)

\* unsubscribe_data_updates(path, callback) on registry subs: the registry
\* afterwards and the exception raised.  list.remove raises ValueError when
\* the callback is not in the list.
UnsubscribeDataUpdates(subs, path, callback) ==
    IF path \in DOMAIN subs
    THEN IF SeqContains(subs[path], callback)
         THEN [subs |-> [subs EXCEPT ![path] = RemoveFirst(@, callback)],
               raised |-> "none"]
         ELSE [subs |-> subs, raised |-> "ValueError"]
    ELSE [subs |-> subs, raised |-> "none"]

\* callback(path, value): the registry afterwards and the exception raised
InvokeDataCallback(subs, callback, path, value) ==
    IF callback \in Raising THEN [subs |-> subs, raised |-> "CallbackError"]
    ELSE IF callback \in SelfUnsubscribing
         THEN UnsubscribeDataUpdates(subs, path, callback)
         ELSE [subs |-> subs, raised |-> "none"]

Call(callback, path, value) == [cb |-> callback, path |-> path, value |-> value]

\* "for callback in self._data_subscriptions[path]: callback(path, value)":
\* the list iterator reads the live list by index.
RECURSIVE DispatchCallbacks(_, _, _, _, _)
DispatchCallbacks(subs, path, value, i, done) ==
    IF i > Len(subs[path])
    THEN [subs |-> subs, calls |-> done, raised |-> "none"]
    ELSE LET callback == subs[path][i]
             r == InvokeDataCallback(subs, callback, path, value)
             now == Append(done, Call(callback, path, value))
         IN  IF r.raised # "none"
             THEN [subs |-> r.subs, calls |-> now, raised |-> r.raised]
             ELSE DispatchCallbacks(r.subs, path, value, i + 1, now)

\* "for path in matching_paths: ..."
RECURSIVE DispatchPaths(_, _, _, _)
DispatchPaths(subs, json_message, matching_paths, done) ==
    IF matching_paths = << >>
    THEN [subs |-> subs, calls |-> done, raised |-> "none"]
    ELSE LET path == Head(matching_paths)
             matching_path_value == GetValueByJsonPath(json_message, path)
             r == DispatchCallbacks(subs, path, matching_path_value, 1, done)
         IN  IF r.raised # "none" THEN r
             ELSE DispatchPaths(r.subs, json_message, Tail(matching_paths), r.calls)

\* [path for path in new_message_paths if path in self._data_subscriptions]
RECURSIVE MatchingPaths(_, _)
MatchingPaths(new_message_paths, subs) ==
    IF new_message_paths = << >> THEN << >>
    ELSE (IF Head(new_message_paths) \in DOMAIN subs
          THEN <<Head(new_message_paths)>> ELSE << >>)
         \o MatchingPaths(Tail(new_message_paths), subs)

\* "Actions" in json_message: a key of a dict, an element of a list, a
\* substring of a str; TypeError for a number or None.
HasSubstring(s, w) ==
    \E i \in 1..(Len(s) - Len(w) + 1) : SubSeq(s, i, i + Len(w) - 1) = w

ActionsIn(json_message) ==
    CASE IsDict(json_message) -> IF "Actions" \in DOMAIN json_message.v THEN "yes" ELSE "no"
      [] IsList(json_message) -> IF SeqContains(json_message.v, JStr("Actions")) THEN "yes" ELSE "no"
      [] json_message.t = "str" -> IF HasSubstring(json_message.v, "Actions") THEN "yes" ELSE "no"
      [] OTHER -> "TypeError"

\* A for loop over x raises TypeError unless x is a list, a dict or a str.
Iterable(x) == x.t \in {"list", "dict", "str"}

\* The elements a for loop over x visits: the items of a list, the keys of
\* a dict, the characters of a str.
IterItems(x) ==
    CASE IsList(x) -> x.v
      [] IsDict(x) -> [i \in 1..Cardinality(DOMAIN x.v) |-> JStr(KeySeq(DOMAIN x.v)[i])]
      [] OTHER -> [i \in 1..Len(x.v) |-> JStr(SubSeq(x.v, i, i))]

\* x[key] for a str key succeeds: KeyError for a dict without the key,
\* TypeError for everything that is not a dict.
HasItem(x, key) == IsDict(x) /\ key \in DOMAIN x.v

\* one result of an action: the log records, ending in "exception" when
\* the lookup of a field raises
ResultLog(result) ==
    IF ~HasItem(result, "StatusInfo") THEN <<"exception">>
    ELSE IF result.v["StatusInfo"] = JStr("OK") THEN << >>
    ELSE IF \A f \in {"Path", "Property", "StatusId"} : f \in DOMAIN result.v
         THEN <<"error">>
         ELSE <<"exception">>

Raises(log) == log # << >> /\ log[Len(log)] = "exception"

RECURSIVE ResultsLog(_)
ResultsLog(results) ==
    IF results = << >> THEN << >>
    ELSE LET l == ResultLog(Head(results))
         IN  IF Raises(l) THEN l ELSE l \o ResultsLog(Tail(results))

ActionLog(action) ==
    IF ~HasItem(action, "Results") THEN <<"exception">>
    ELSE IF ~Iterable(action.v["Results"]) THEN <<"exception">>
    ELSE ResultsLog(IterItems(action.v["Results"]))

RECURSIVE ActionsLog(_)
ActionsLog(actions) ==
    IF actions = << >> THEN << >>
    ELSE LET l == ActionLog(Head(actions))
         IN  IF Raises(l) THEN l ELSE l \o ActionsLog(Tail(actions))

\* the branch "if 'Actions' in json_message: ...; return"
ProcessActions(json_message) ==
    IF ~IsDict(json_message) THEN <<"exception">>
    ELSE IF ~Iterable(json_message.v["Actions"]) THEN <<"exception">>
    ELSE ActionsLog(IterItems(json_message.v["Actions"]))

\* an ingestion that logs the Actions envelope and then merges and
\* dispatches the frame all the same
ProcessReceivedJsonMessage_IngestsActions(state, subs, json_message) ==
    IF ~IsDict(json_message)
    THEN [state |-> state, subs |-> subs, calls |-> << >>, logged |-> <<"exception">>]
    ELSE LET new_message_paths == GetJsonPaths(json_message, "")
             matching_paths == MatchingPaths(new_message_paths, subs)
             r == DispatchPaths(subs, json_message, matching_paths, << >>)
         IN  [state |-> Merge(state, json_message), subs |-> r.subs,
              calls |-> r.calls,
              logged |-> IF r.raised # "none" THEN <<"exception">> ELSE << >>]

\* an ingestion that resolves the value handed to the callbacks in the
\* merged State Document instead of the incoming message
ProcessReceivedJsonMessage_ResolvesMerged(state, subs, json_message) ==
    LET unchanged(log) == [state |-> state, subs |-> subs, calls |-> << >>, logged |-> log]
        has == ActionsIn(json_message)
    IN  IF has = "TypeError" THEN unchanged(<<"exception">>)
        ELSE IF has = "yes" THEN unchanged(ProcessActions(json_message))
        ELSE IF ~IsDict(json_message) THEN unchanged(<<"exception">>)
             ELSE LET merged == Merge(state, json_message)
                      new_message_paths == GetJsonPaths(json_message, "")
                      matching_paths == MatchingPaths(new_message_paths, subs)
                      r == DispatchPaths(subs, merged, matching_paths, << >>)
                  IN  [state |-> merged, subs |-> r.subs, calls |-> r.calls,
                       logged |-> IF r.raised # "none" THEN <<"exception">> ELSE << >>]

\* __process_received_json_message(json_message) from State Document state
\* and registry subs: both afterwards, the calls made and the log written.
\* Every exception is caught and logged.
ProcessReceivedJsonMessage(state, subs, json_message) ==
    LET unchanged(log) == [state |-> state, subs |-> subs, calls |-> << >>, logged |-> log]
        has == ActionsIn(json_message)
    IN  IF has = "TypeError" THEN unchanged(<<"exception">>)
        ELSE IF has = "yes" THEN unchanged(ProcessActions(json_message))
        ELSE IF ~IsDict(json_message)
             \* merge returns the message; __get_json_paths then fails on .items()
             THEN unchanged(<<"exception">>)
             ELSE LET merged == Merge(state, json_message)
                      new_message_paths == GetJsonPaths(json_message, "")
                      matching_paths == MatchingPaths(new_message_paths, subs)
                      r == DispatchPaths(subs, json_message, matching_paths, << >>)
                  IN  [state |-> merged, subs |-> r.subs, calls |-> r.calls,
                       logged |-> IF r.raised # "none" THEN <<"exception">> ELSE << >>]

\* subscribe_data_updates replaying the current value whatever
\* trigger_current_value says
SubscribeDataUpdates_AlwaysReplays(state, subs, path, callback, trigger_current_value) ==
    LET created == IF path \in DOMAIN subs THEN subs
                   ELSE [p \in DOMAIN subs \cup {path} |->
                           IF p = path THEN << >> ELSE subs[p]]
        appended == [created EXCEPT ![path] = Append(@, callback)]
        matching_path_value == GetValueByJsonPath(state, path)
    IN  IF SeqContains(GetJsonPaths(state, ""), path) /\ matching_path_value # None
        THEN LET r == InvokeDataCallback(appended, callback, path,
                                         matching_path_value)
             IN  [subs |-> r.subs,
                  calls |-> <<Call(callback, path, matching_path_value)>>,
                  raised |-> r.raised]
        ELSE [subs |-> appended, calls |-> << >>, raised |-> "none"]

\* subscribe_data_updates putting the new registration first in the list
SubscribeDataUpdates_Prepends(state, subs, path, callback, trigger_current_value) ==
    LET created == IF path \in DOMAIN subs THEN subs
                   ELSE [p \in DOMAIN subs \cup {path} |->
                           IF p = path THEN << >> ELSE subs[p]]
        prepended == [created EXCEPT ![path] = <<callback>> \o @]
    IN  IF trigger_current_value /\ SeqContains(GetJsonPaths(state, ""), path)
           /\ GetValueByJsonPath(state, path) # None
        THEN LET matching_path_value == GetValueByJsonPath(state, path)
                 r == InvokeDataCallback(prepended, callback, path,
                                         matching_path_value)
             IN  [subs |-> r.subs,
                  calls |-> <<Call(callback, path, matching_path_value)>>,
                  raised |-> r.raised]
        ELSE [subs |-> prepended, calls |-> << >>, raised |-> "none"]

\* subscribe_data_updates(path, callback, trigger_current_value) on registry
\* subs with State Document state
SubscribeDataUpdates(state, subs, path, callback, trigger_current_value) ==
    LET created == IF path \in DOMAIN subs THEN subs
                   ELSE [p \in DOMAIN subs \cup {path} |->
                           IF p = path THEN << >> ELSE subs[p]]
        appended == [created EXCEPT ![path] = Append(@, callback)]
    IN  IF trigger_current_value /\ SeqContains(GetJsonPaths(state, ""), path)
        THEN LET matching_path_value == GetValueByJsonPath(state, path)
             IN  IF matching_path_value # None
                 THEN LET r == InvokeDataCallback(appended, callback, path,
                                                  matching_path_value)
                      IN  [subs |-> r.subs,
                           calls |-> <<Call(callback, path, matching_path_value)>>,
                           raised |-> r.raised]
                 ELSE [subs |-> appended, calls |-> << >>, raised |-> "none"]
        ELSE [subs |-> appended, calls |-> << >>, raised |-> "none"]

-----------------------------------------------------------------------------
(* JSON text: json.dumps for outbound messages, the device's serializer    *)
(* for inbound ones, and json.JSONDecoder.raw_decode in the reader.        *)
(* Strings hold no escapes and numbers are integers.                       *)

JBool(b) == [t |-> "bool", v |-> b]

\* s[i:i+1], with positions counted from 1
Ch(s, i) == IF i >= 1 /\ i <= Len(s) THEN SubSeq(s, i, i) ELSE ""

Whitespace == {" ", "\t", "\n", "\r"}

DigitChars == "0123456789"

IsDigit(c) == c # "" /\ \E d \in 1..10 : SubSeq(DigitChars, d, d) = c

DigitVal(c) == (CHOOSE d \in 1..10 : SubSeq(DigitChars, d, d) = c) - 1

RECURSIVE NatToStr(_)
NatToStr(n) ==
    IF n < 10 THEN SubSeq(DigitChars, n + 1, n + 1)
    ELSE NatToStr(n \div 10) \o SubSeq(DigitChars, (n % 10) + 1, (n % 10) + 1)

IntToStr(n) == IF n < 0 THEN "-" \o NatToStr(0 - n) ELSE NatToStr(n)

RECURSIVE DumpsWith(_, _, _)
RECURSIVE DumpsItems(_, _, _, _)
RECURSIVE DumpsPairs(_, _, _, _)

\* the elements of a list, joined by item_sep
DumpsItems(items, i, item_sep, key_sep) ==
    IF i > Len(items) THEN ""
    ELSE (IF i > 1 THEN item_sep ELSE "")
         \o DumpsWith(items[i], item_sep, key_sep)
         \o DumpsItems(items, i + 1, item_sep, key_sep)

\* the "key": value pairs of a dict, joined by item_sep
DumpsPairs(d, keys, item_sep, key_sep) ==
    IF keys = << >> THEN ""
    ELSE "\"" \o Head(keys) \o "\"" \o key_sep
         \o DumpsWith(d.v[Head(keys)], item_sep, key_sep)
         \o (IF Tail(keys) # << >> THEN item_sep ELSE "")
         \o DumpsPairs(d, Tail(keys), item_sep, key_sep)

\* json.dumps(value, separators=(item_sep, key_sep))
DumpsWith(value, item_sep, key_sep) ==
    CASE value.t = "int" -> IntToStr(value.v)
      [] value.t = "null" -> "null"
      [] value.t = "bool" -> IF value.v THEN "true" ELSE "false"
      [] value.t = "str" -> "\"" \o value.v \o "\""
      [] value.t = "list" -> "[" \o DumpsItems(value.v, 1, item_sep, key_sep) \o "]"
      [] OTHER -> "{" \o DumpsPairs(value, KeySeq(DOMAIN value.v), item_sep, key_sep) \o "}"

\* json.dumps(json_data) with the default separators
Dumps(json_data) == DumpsWith(json_data, ", ", ": ")

\* the compact form the device writes
CompactDumps(value) == DumpsWith(value, ",", ":")

\* _w(s, end).end(): the first position from i on that holds no whitespace
RECURSIVE SkipWhitespace(_, _)
SkipWhitespace(s, i) ==
    IF Ch(s, i) \in Whitespace THEN SkipWhitespace(s, i + 1) ELSE i

\* str.lstrip()
LStrip(s) == SubSeq(s, SkipWhitespace(s, 1), Len(s))

Failed == [ok |-> FALSE, val |-> None, end |-> 0]
Parsed(val, end) == [ok |-> TRUE, val |-> val, end |-> end]

\* scanstring(s, end): the text up to the closing quote
RECURSIVE ScanString(_, _, _)
ScanString(s, begin, i) ==
    IF i > Len(s) THEN Failed
    ELSE IF Ch(s, i) = "\"" THEN Parsed(JStr(SubSeq(s, begin, i - 1)), i + 1)
    ELSE ScanString(s, begin, i + 1)

\* the digits matched by \d* from position i on
RECURSIVE ScanDigits(_, _, _)
ScanDigits(s, i, acc) ==
    IF IsDigit(Ch(s, i)) THEN ScanDigits(s, i + 1, acc * 10 + DigitVal(Ch(s, i)))
    ELSE [val |-> acc, end |-> i]

\* match_number(string, idx): -?(0|[1-9]\d*)
MatchNumber(s, idx) ==
    LET neg == Ch(s, idx) = "-"
        i == IF neg THEN idx + 1 ELSE idx
    IN  IF Ch(s, i) = "0" THEN Parsed(JInt(0), i + 1)
        ELSE IF IsDigit(Ch(s, i))
             THEN LET r == ScanDigits(s, i, 0)
                  IN  Parsed(JInt(IF neg THEN 0 - r.val ELSE r.val), r.end)
             ELSE Failed

RECURSIVE ScanOnce(_, _)
RECURSIVE ParsePairs(_, _, _)
RECURSIVE ParseItems(_, _, _)

\* the "while True" loop of JSONObject; end is the position after the
\* opening quote of the next key
ParsePairs(s, end, pairs) ==
    LET key == ScanString(s, end, end)
    IN  IF ~key.ok THEN Failed
        ELSE LET colon == IF Ch(s, key.end) # ":"
                          THEN SkipWhitespace(s, key.end) ELSE key.end
             IN  IF Ch(s, colon) # ":" THEN Failed
                 ELSE LET value == ScanOnce(s, SkipWhitespace(s, colon + 1))
                      IN  IF ~value.ok THEN Failed
                          ELSE LET after == SkipWhitespace(s, value.end)
                                   nextchar == Ch(s, after)
                                   now == [k \in DOMAIN pairs \cup {key.val.v} |->
                                             IF k = key.val.v THEN value.val
                                             ELSE pairs[k]]
                               IN  IF nextchar = "}" THEN Parsed(JDict(now), after + 1)
                                   ELSE IF nextchar # "," THEN Failed
                                   ELSE LET q == SkipWhitespace(s, after + 1)
                                        IN  IF Ch(s, q) # "\"" THEN Failed
                                            ELSE ParsePairs(s, q + 1, now)

\* JSONObject((s, end), ...); end is the position after "{"
ParseObject(s, end) ==
    LET q == IF Ch(s, end) # "\"" THEN SkipWhitespace(s, end) ELSE end
    IN  IF Ch(s, q) = "}" THEN Parsed(EmptyDict, q + 1)
        ELSE IF Ch(s, q) # "\"" THEN Failed
        ELSE ParsePairs(s, q + 1, EmptyMap)

\* the "while True" loop of JSONArray
ParseItems(s, end, values) ==
    LET value == ScanOnce(s, end)
    IN  IF ~value.ok THEN Failed
        ELSE LET after == SkipWhitespace(s, value.end)
                 nextchar == Ch(s, after)
                 now == Append(values, value.val)
             IN  IF nextchar = "]" THEN Parsed(JList(now), after + 1)
                 ELSE IF nextchar # "," THEN Failed
                 ELSE ParseItems(s, SkipWhitespace(s, after + 1), now)

\* JSONArray((s, end), scan_once); end is the position after "["
ParseArray(s, end) ==
    LET q == SkipWhitespace(s, end)
    IN  IF Ch(s, q) = "]" THEN Parsed(JList(<< >>), q + 1)
        ELSE ParseItems(s, q, << >>)

\* scan_once(string, idx)
ScanOnce(s, idx) ==
    LET nextchar == Ch(s, idx)
    IN  CASE nextchar = "" -> Failed
          [] nextchar = "\"" -> ScanString(s, idx + 1, idx + 1)
          [] nextchar = "{" -> ParseObject(s, idx + 1)
          [] nextchar = "[" -> ParseArray(s, idx + 1)
          [] nextchar = "n" /\ idx + 3 <= Len(s) /\ SubSeq(s, idx, idx + 3) = "null"
               -> Parsed(None, idx + 4)
          [] nextchar = "t" /\ idx + 3 <= Len(s) /\ SubSeq(s, idx, idx + 3) = "true"
               -> Parsed(JBool(TRUE), idx + 4)
          [] nextchar = "f" /\ idx + 4 <= Len(s) /\ SubSeq(s, idx, idx + 4) = "false"
               -> Parsed(JBool(FALSE), idx + 5)
          [] OTHER -> MatchNumber(s, idx)

\* decoder.raw_decode(s): the value at the start of s and the position after
\* it; ok is FALSE where Python raises ValueError
RawDecode(s) == ScanOnce(s, 1)

\* the loop "while receive_data_buffer: ... raw_decode ... lstrip()": the
\* values decoded and the text left in the buffer
RECURSIVE DecodeBuffer(_, _)
DecodeBuffer(buffer, json_messages) ==
    IF buffer = "" THEN [buffer |-> buffer, json_messages |-> json_messages]
    ELSE LET r == RawDecode(buffer)
         IN  IF ~r.ok THEN [buffer |-> buffer, json_messages |-> json_messages]
             ELSE DecodeBuffer(LStrip(SubSeq(buffer, r.end, Len(buffer))),
                               Append(json_messages, r.val))

-----------------------------------------------------------------------------
(* Object sharing: merge_dict stores the values of the incoming message    *)
(* themselves ("base[k] = v", and the override that returns nxt), and      *)
(* merges into the dicts of the State Document in place.                   *)

\* the value at the key path parts of doc
RECURSIVE ValueAt(_, _)
ValueAt(doc, parts) ==
    IF parts = << >> THEN doc
    ELSE IF IsDict(doc) /\ Head(parts) \in DOMAIN doc.v
         THEN ValueAt(doc.v[Head(parts)], Tail(parts))
         ELSE None

\* the key paths at which merge_dict(base, nxt) leaves in base the very dict
\* object found in nxt: a key absent from base, or a value that is
\* overridden by a dict
RECURSIVE StoredByReference(_, _, _)
StoredByReference(base, nxt, prefix) ==
    IF DOMAIN nxt.v = {} THEN {}
    ELSE UNION {LET v == nxt.v[k]
                    p == Append(prefix, k)
                IN  IF k \notin DOMAIN base.v
                    THEN (IF IsDict(v) THEN {p} ELSE {})
                    ELSE IF IsDict(base.v[k]) /\ IsDict(v)
                         THEN StoredByReference(base.v[k], v, p)
                         ELSE IF IsDict(v) THEN {p} ELSE {}
                : k \in DOMAIN nxt.v}

\* what a merge of nxt does to the dict object at the key path parts of
\* the base: it is merged into in place, or replaced by an override, or
\* left untouched
RECURSIVE MergeReaches(_, _)
MergeReaches(nxt, parts) ==
    IF ~IsDict(nxt) THEN "replaced"
    ELSE IF parts = << >>
         THEN (IF DOMAIN nxt.v = {} THEN "untouched" ELSE "merged")
         ELSE IF Head(parts) \notin DOMAIN nxt.v THEN "untouched"
              ELSE MergeReaches(nxt.v[Head(parts)], Tail(parts))

NoHeld == {}

\* the dicts of the message nxt the document base points into once nxt is
\* merged
Hold(base, nxt) == StoredByReference(base, nxt, << >>)

\* the message reaches nax_custom_merger.merge and merge_dict
Merges(json_message) ==
    IsDict(json_message) /\ ActionsIn(json_message) = "no"

\* the shared dicts after __process_received_json_message(json_message) on
\* the document state: those an override has not taken out of the document
HeldAfter(h, state, json_message) ==
    IF ~Merges(json_message) THEN h
    ELSE IF h = {} THEN Hold(state, json_message)
    ELSE {p \in h : MergeReaches(json_message, p) # "replaced"}

\* the merge of json_message changes a shared dict in place, and with it
\* the message object that owns it
ChangesHeld(h, state, json_message) ==
    /\ Merges(json_message)
    /\ \E p \in h :
          /\ MergeReaches(json_message, p) = "merged"
          /\ ValueAt(Merge(state, json_message), p) # ValueAt(state, p)

\* the shared dicts after the messages have been processed in order, and
\* whether one of the merges changed a shared dict
RECURSIVE HeldAll(_, _, _, _, _)
HeldAll(h, state, subs, json_messages, changed) ==
    IF json_messages = << >> THEN [held |-> h, changed |-> changed]
    ELSE LET r == ProcessReceivedJsonMessage(state, subs, Head(json_messages))
         IN  HeldAll(HeldAfter(h, state, Head(json_messages)), r.state, r.subs,
                     Tail(json_messages),
                     changed \/ ChangesHeld(h, state, Head(json_messages)))

-----------------------------------------------------------------------------
(* State after construction: NaxApi.__init__ *)

NoSubscriptions == [p \in {} |-> << >>]

NoOp == [name |-> "init", path |-> "", cb |-> "", trigger |-> FALSE,
         repeat |-> FALSE, arg |-> "", frame |-> None, result |-> None,
         changed |-> FALSE,
         pre_state |-> EmptyDict, pre_subs |-> NoSubscriptions]

\* the record of an operation that starts in the current state
BaseOp(name) == [name |-> name, path |-> "", cb |-> "", trigger |-> FALSE,
                 repeat |-> FALSE, arg |-> "", frame |-> None, result |-> None,
                 changed |-> FALSE,
                 pre_state |-> json_state, pre_subs |-> data_subscriptions]

NoHist == [outage |-> FALSE, false_notified |-> FALSE,
           login_unannounced |-> FALSE, login_ok |-> FALSE,
           upgrade_ok |-> FALSE, teardown |-> "none",
           drop_subs |-> NoSubscriptions,
           \* the __ws_handler tasks and the reconnect_coroutine tasks that
           \* were started and have not ended
           readers |-> 0, loops |-> 0]

\* run_coroutine_threadsafe(self.__ws_handler(...)) started a handler task
ReaderStarted(h) == [h EXCEPT !.readers = @ + 1]

\* a handler task returned, was cancelled, or ended with an exception
ReaderEnded(h) == [h EXCEPT !.readers = @ - 1]

\* asyncio.create_task(reconnect_coroutine())
LoopStarted(h) == [h EXCEPT !.loops = @ + 1]

\* a reconnect_coroutine task returned or ended with an exception
LoopEnded(h) == [h EXCEPT !.loops = @ - 1]

Quiet ==
    /\ op = NoOp
    /\ calls = << >>
    /\ notified = << >>
    /\ logged = << >>
    /\ sent = << >>
    /\ raised = "none"

\* threading.RLock() twice and asyncio.Lock(): nobody holds a lock
NoLocks == [data |-> "none", connection |-> "none", put |-> "none"]

\* the callers that can be inside the client at the same time: the event loop
\* thread running the reader's dispatch, other threads calling the registry
\* functions, and coroutines of the event loop calling put_data
Threads == {"T1", "T2"}
Writers == {"W1", "W2"}
TaskNames == {"loop"} \cup Threads \cup Writers

Idle == [pc |-> "idle"]

\* no caller is inside the client
NoTasks == [t \in TaskNames |-> Idle]

\* everything but the State Document and the fallback flag
ConstructedRest ==
    /\ held = NoHeld
    /\ locks = NoLocks
    /\ tasks = NoTasks
    /\ data_subscriptions = NoSubscriptions
    /\ connection_subscriptions = << >>
    /\ ws_client_connected = FALSE
    /\ ws_client = "none"
    /\ loginResponse = "none"
    /\ ws_task = "none"
    /\ reader = "none"
    /\ reconnect_task = "none"
    /\ receive_data_buffer = ""
    /\ caller = "login"
    /\ socket = "none"
    /\ wire = << >>
    /\ device_sent = << >>
    /\ delivered = << >>
    /\ hist = NoHist
    /\ Quiet

Constructed ==
    /\ http_fallback \in BOOLEAN
    /\ json_state = EmptyDict
    /\ ConstructedRest

-----------------------------------------------------------------------------
(* Operations of the State Store & Dispatcher *)

\* at most MaxRegs registrations are held at a time
MaxRegs == 2

Registrations(subs, path) == IF path \in DOMAIN subs THEN subs[path] ELSE << >>

RECURSIVE SumLen(_, _)
SumLen(subs, paths) ==
    IF paths = {} THEN 0
    ELSE LET p == CHOOSE x \in paths : TRUE
         IN  Len(subs[p]) + SumLen(subs, paths \ {p})

TotalRegs(subs) == SumLen(subs, DOMAIN subs)

\* api.subscribe_data_updates(path, callback, trigger_current_value)
SubscribeData(path, callback, trigger_current_value) ==
    /\ TotalRegs(data_subscriptions) < MaxRegs
    /\ \E r \in {SubscribeDataUpdates(json_state, data_subscriptions, path,
                                      callback, trigger_current_value)} :
        /\ data_subscriptions' = r.subs
        /\ calls' = r.calls
        /\ raised' = r.raised
    /\ op' = [BaseOp("subscribe") EXCEPT !.path = path, !.cb = callback,
                                         !.trigger = trigger_current_value]
    /\ notified' = << >> /\ logged' = << >> /\ sent' = << >>
    /\ UNCHANGED <<http_fallback, locks, tasks, json_state, held, connVars, readerVars>>

\* api.unsubscribe_data_updates(path, callback)
UnsubscribeData(path, callback) ==
    /\ \E r \in {UnsubscribeDataUpdates(data_subscriptions, path, callback)} :
        /\ data_subscriptions' = r.subs
        /\ raised' = r.raised
    /\ op' = [BaseOp("unsubscribe") EXCEPT
                !.path = path, !.cb = callback,
                \* the call before was this same call and returned normally
                !.repeat = /\ op.name = "unsubscribe" /\ op.path = path
                           /\ op.cb = callback /\ raised = "none"]
    /\ calls' = << >> /\ notified' = << >> /\ logged' = << >> /\ sent' = << >>
    /\ UNCHANGED <<http_fallback, locks, tasks, json_state, held, connVars, readerVars>>

\* self.__process_received_json_message(json_message)
ProcessMessage(json_message) ==
    /\ \E r \in {ProcessReceivedJsonMessage(json_state, data_subscriptions,
                                            json_message)} :
        /\ json_state' = r.state
        /\ data_subscriptions' = r.subs
        /\ calls' = r.calls
        /\ logged' = r.logged
    /\ held' = HeldAfter(held, json_state, json_message)
    /\ raised' = "none"
    /\ op' = [BaseOp("process") EXCEPT
                !.frame = json_message,
                !.changed = ChangesHeld(held, json_state, json_message)]
    /\ notified' = << >> /\ sent' = << >>
    /\ UNCHANGED <<http_fallback, locks, tasks, connVars, readerVars>>

-----------------------------------------------------------------------------
(* Spec: the State Store & Dispatcher driven by its callers and by the     *)
(* frames the reader hands over.                                           *)

\* paths the observers subscribe to
SubPaths == {"X.Y.Z", "X.Y"}

OkResult == JDict([f \in {"Path", "Property", "StatusId", "StatusInfo"} |->
                     IF f = "StatusInfo" THEN JStr("OK") ELSE JStr("p")])

\* frames the device sends
FrameZ == Obj1("X", Obj1("Y", Obj1("Z", JInt(9))))
FrameW == Obj1("X", Obj1("Y", Obj1("W", JInt(1))))
FrameZNull == Obj1("X", Obj1("Y", Obj1("Z", None)))
FrameYScalar == Obj1("X", Obj1("Y", JInt(5)))
FrameAck == Obj2("Actions", JList(<<Obj1("Results", JList(<<OkResult>>))>>),
                 "X", Obj1("Y", Obj1("Z", JInt(7))))
ErrorResult == JDict([f \in {"Path", "Property", "StatusId", "StatusInfo"} |->
                        IF f = "StatusInfo" THEN JStr("Error") ELSE JStr("p")])
FrameNack == Obj2("Actions", JList(<<Obj1("Results", JList(<<ErrorResult>>))>>),
                  "X", Obj1("Y", Obj1("Z", JInt(8))))
FrameBadAck == Obj2("Actions", JInt(1), "X", Obj1("Y", Obj1("W", JInt(2))))
Frames == {FrameZ, FrameW, FrameZNull, FrameYScalar, FrameAck, FrameNack,
           FrameBadAck, EmptyDict, None}

Init == Constructed

Next ==
    \/ \E p \in SubPaths, c \in Callbacks, t \in BOOLEAN : SubscribeData(p, c, t)
    \/ \E p \in SubPaths, c \in Callbacks : UnsubscribeData(p, c)
    \/ \E f \in Frames : ProcessMessage(f)

Spec == Init /\ [][Next]_vars

-----------------------------------------------------------------------------
(* MergeSpec: nax_custom_merger.merge applied to every bounded document    *)
(* and fragment.                                                           *)

MergeKeys == {"A", "B"}
MergeLeaves == {JInt(1), JInt(2), None}
MergeLists == {JList(<<JInt(3)>>)}

\* the dicts with keys among keys and values among values
DictsOver(keys, values) ==
    UNION {{JDict(f) : f \in [d -> values]} : d \in SUBSET keys}

InnerDicts == DictsOver(MergeKeys, MergeLeaves)
Documents == DictsOver(MergeKeys, MergeLeaves \cup MergeLists \cup InnerDicts)

\* nax_custom_merger.merge(self._json_state, nxt), called once on the
\* document drawn by MergeInit
MergeCall(nxt) ==
    /\ op.name = "init"
    /\ json_state' = Merge(json_state, nxt)
    /\ held' = HeldAfter(held, json_state, nxt)
    /\ op' = [BaseOp("merge") EXCEPT
                !.frame = nxt, !.changed = ChangesHeld(held, json_state, nxt)]
    /\ calls' = << >> /\ notified' = << >> /\ logged' = << >> /\ sent' = << >>
    /\ raised' = "none"
    /\ UNCHANGED <<http_fallback, locks, tasks, data_subscriptions, connVars, readerVars>>

MergeInit ==
    /\ http_fallback = FALSE
    /\ json_state \in Documents
    /\ ConstructedRest

MergeNext == \E nxt \in Documents \cup {None} : MergeCall(nxt)

MergeSpec == MergeInit /\ [][MergeNext]_vars

-----------------------------------------------------------------------------
(* Session Manager: http_login and async_upgrade_websocket *)

\* an outbound WebSocket message and an outbound HTTP request
Ws(body) == [kind |-> "ws", path |-> "", body |-> body]
Http(method, path, body) == [kind |-> method, path |-> path, body |-> body]

\* a connection callback invocation
Notification(callback, connected) == [cb |-> callback, connected |-> connected]

\* for callback in self._connection_subscriptions: callback(connected)
Notify(subs, connected) ==
    [i \in 1..Len(subs) |-> Notification(subs[i], connected)]

\* what a login attempt meets on the network
LoginOutcomes == {"ok", "connect_error", "read_timeout", "no_cookie",
                  "error_status", "no_token", "redirect_token"}

\* http_login(): the (bool, message) it returns or the exception it raises,
\* and the _loginResponse it leaves behind
HttpLogin(login_response, outcome) ==
    CASE outcome = "connect_error" ->
           \* except (httpx.ConnectTimeout, httpx.NetworkError)
           [ok |-> FALSE, msg |-> "Could not connect", raised |-> "none",
            loginResponse |-> login_response]
      [] outcome = "read_timeout" ->
           \* httpx.ReadTimeout of the GET or of the POST is not caught
           [ok |-> FALSE, msg |-> "", raised |-> "ReadTimeout",
            loginResponse |-> login_response]
      [] outcome = "no_cookie" ->
           \* userLoginGetResponse.cookies["TRACKID"] with no such cookie
           [ok |-> FALSE, msg |-> "", raised |-> "KeyError",
            loginResponse |-> login_response]
      [] outcome = "error_status" ->
           [ok |-> FALSE, msg |-> "Login attempt failed", raised |-> "none",
            loginResponse |-> "error"]
      [] outcome = "no_token" ->
           [ok |-> FALSE, msg |-> "Login attempt failed", raised |-> "none",
            loginResponse |-> "no_token"]
      [] outcome = "redirect_token" ->
           \* a 3xx response that carries the token: is_error is False
           [ok |-> TRUE, msg |-> "Connected successfully", raised |-> "none",
            loginResponse |-> "redirect"]
      [] OTHER ->
           [ok |-> TRUE, msg |-> "Connected successfully", raised |-> "none",
            loginResponse |-> "ok"]

\* what the WebSocket handshake meets
UpgradeOutcomes == {"ok", "ssl_error", "invalid_status", "connect_error",
                    "handshake_error"}

\* async_upgrade_websocket() from websockets.connect on: the (bool, message)
\* it returns or the exception it raises
UpgradeResult(outcome) ==
    CASE outcome = "ok" ->
           [ok |-> TRUE, msg |-> "Connected successfully", raised |-> "none",
            logged |-> <<"info: Connected to websocket">>]
      [] outcome = "ssl_error" ->
           [ok |-> FALSE, msg |-> "Connection Failed", raised |-> "none",
            logged |-> <<"exception: An SSL certificate verification error occurred">>]
      [] outcome = "invalid_status" ->
           [ok |-> FALSE, msg |-> "Connection Failed, Invalid status code",
            raised |-> "none",
            logged |-> <<"exception: An invalid status code was received">>]
      [] outcome = "connect_error" ->
           \* OSError (refused, reset, name not resolved) or TimeoutError
           [ok |-> FALSE, msg |-> "", raised |-> "OSError", logged |-> << >>]
      [] OTHER ->
           \* InvalidHandshake other than InvalidStatus
           [ok |-> FALSE, msg |-> "", raised |-> "HandshakeError",
            logged |-> << >>]

\* the history flags once a login attempt has returned
AfterLogin(h, ok) == [h EXCEPT !.login_ok = ok, !.upgrade_ok = FALSE]

\* the history flags once the stream is up
AfterUpgrade(h) == [h EXCEPT !.upgrade_ok = TRUE, !.outage = FALSE,
                             !.false_notified = FALSE,
                             !.login_unannounced = FALSE]

\* self._ws_client = None, the first statement of async_upgrade_websocket
UpgradeBegin ==
    /\ ws_client' = "none"
    /\ calls' = << >> /\ notified' = << >> /\ logged' = << >> /\ sent' = << >>
    /\ raised' = "none"
    /\ UNCHANGED <<http_fallback, locks, tasks, dataVars, connection_subscriptions,
                   ws_client_connected, loginResponse, ws_task, reader,
                   socket, hist, readerVars>>

\* async_upgrade_websocket() once websockets.connect has returned or raised
UpgradeEnd(r) ==
    /\ IF r.ok
       THEN /\ ws_client' = "client"
            /\ ws_client_connected' = TRUE
            /\ notified' = Notify(connection_subscriptions, TRUE)
            /\ socket' = "open"
            /\ ws_task' = "task"
            /\ reader' = "start"
            /\ wire' = << >> /\ device_sent' = << >> /\ delivered' = << >>
            \* the handler task is started; a reconnection loop that made
            \* the call returns
            /\ hist' = ReaderStarted(AfterUpgrade(
                           IF reconnect_task = "connecting"
                           THEN LoopEnded(hist) ELSE hist))
       ELSE /\ notified' = << >>
            /\ UNCHANGED <<ws_client, ws_client_connected, socket, ws_task,
                           reader, wire, device_sent, delivered, hist>>
    /\ logged' = r.logged
    /\ calls' = << >> /\ sent' = << >>
    /\ UNCHANGED <<http_fallback, locks, tasks, dataVars, connection_subscriptions,
                   loginResponse, receive_data_buffer>>

\* async_setup_entry: await api.http_login()
SetupLogin(outcome) ==
    /\ caller = "login"
    /\ \E r \in {HttpLogin(loginResponse, outcome)} :
        /\ loginResponse' = r.loginResponse
        /\ raised' = r.raised
        /\ caller' = IF r.ok THEN "upgrade" ELSE "not_ready"
        /\ hist' = AfterLogin(hist, r.ok)
    /\ op' = [BaseOp("setup_login") EXCEPT !.arg = outcome]
    /\ calls' = << >> /\ notified' = << >> /\ logged' = << >> /\ sent' = << >>
    /\ UNCHANGED <<http_fallback, locks, tasks, dataVars, connection_subscriptions,
                   ws_client_connected, ws_client, ws_task, reader,
                   reconnect_task, socket, readerVars>>

\* async_setup_entry: await api.async_upgrade_websocket(), up to the handshake
SetupUpgradeBegin ==
    /\ caller = "upgrade"
    /\ caller' = "connecting"
    /\ op' = BaseOp("setup_upgrade_begin")
    /\ UpgradeBegin
    /\ UNCHANGED reconnect_task

\* async_setup_entry: await api.async_upgrade_websocket(), from the handshake on
SetupUpgradeEnd(outcome) ==
    /\ caller = "connecting"
    /\ \E r \in {UpgradeResult(outcome)} :
        /\ UpgradeEnd(r)
        /\ raised' = r.raised
        /\ caller' = IF r.ok THEN "ready" ELSE "not_ready"
    /\ op' = [BaseOp("setup_upgrade") EXCEPT !.arg = outcome]
    /\ UNCHANGED reconnect_task

-----------------------------------------------------------------------------
(* Stream Reader: __ws_handler *)

\* the one character of the model that UTF-8 encodes in two bytes
TwoByteChars == {"é"}

\* str.encode("utf-8"): a byte below 0x80 is written as its character
RECURSIVE Utf8Encode(_)
Utf8Encode(s) ==
    IF s = "" THEN << >>
    ELSE (IF Head(s) \in TwoByteChars THEN <<"xC3", "xA9">> ELSE <<Head(s)>>)
         \o Utf8Encode(Tail(s))

\* bytes(data).decode("utf-8"); ok is FALSE where Python raises
\* UnicodeDecodeError
RECURSIVE Utf8Decode(_, _)
Utf8Decode(bytes, acc) ==
    IF bytes = << >> THEN [ok |-> TRUE, text |-> acc]
    ELSE IF Len(Head(bytes)) = 1
         THEN Utf8Decode(Tail(bytes), acc \o Head(bytes))
    ELSE IF Head(bytes) = "xC3" /\ Len(bytes) >= 2 /\ bytes[2] = "xA9"
         THEN Utf8Decode(SubSeq(bytes, 3, Len(bytes)), acc \o "é")
    ELSE [ok |-> FALSE, text |-> ""]

\* what client.recv() returns: a text message or a binary one
TextData(text) == [kind |-> "str", text |-> text, bytes |-> << >>]
BinaryData(bytes) == [kind |-> "bytes", text |-> "", bytes |-> bytes]

\* if not isinstance(data, str): data = bytes(data).decode("utf-8")
DataText(data) ==
    IF data.kind = "str" THEN [ok |-> TRUE, text |-> data.text]
    ELSE Utf8Decode(data.bytes, "")

\* while json_messages: self.__process_received_json_message(json_messages.pop(0))
RECURSIVE ProcessAll(_, _, _, _, _)
ProcessAll(state, subs, json_messages, made, log) ==
    IF json_messages = << >>
    THEN [state |-> state, subs |-> subs, calls |-> made, logged |-> log]
    ELSE LET r == ProcessReceivedJsonMessage(state, subs, Head(json_messages))
         IN  ProcessAll(r.state, r.subs, Tail(json_messages),
                        made \o r.calls, log \o r.logged)

\* a loop body that lets the exception of a failed ingestion leave the
\* handler
ReadData_Propagates(state, subs, buffer, data) ==
    LET t == DataText(data)
    IN  IF ~t.ok
        THEN [state |-> state, subs |-> subs, buffer |-> buffer,
              json_messages |-> << >>, calls |-> << >>,
              logged |-> <<"exception: Error occurred while receiving json data">>,
              raised |-> "none"]
        ELSE LET d == DecodeBuffer(buffer \o t.text, << >>)
                 r == ProcessAll(state, subs, d.json_messages, << >>, << >>)
             IN  [state |-> r.state, subs |-> r.subs, buffer |-> d.buffer,
                  json_messages |-> d.json_messages, calls |-> r.calls,
                  logged |-> r.logged,
                  raised |-> IF r.logged # << >> THEN "Exception" ELSE "none"]

\* one pass of the while loop of __ws_handler on the data recv() returned.
\* What recv(), the decoding and the ingestion raise is caught and logged
\* (except Exception at lines 310 and 338): nothing is raised out of the
\* loop body.
ReadData(state, subs, buffer, data) ==
    LET t == DataText(data)
    IN  IF ~t.ok
        THEN [state |-> state, subs |-> subs, buffer |-> buffer,
              json_messages |-> << >>, calls |-> << >>,
              logged |-> <<"exception: Error occurred while receiving json data">>,
              raised |-> "none"]
        ELSE LET d == DecodeBuffer(buffer \o t.text, << >>)
                 r == ProcessAll(state, subs, d.json_messages, << >>, << >>)
             IN  [state |-> r.state, subs |-> r.subs, buffer |-> d.buffer,
                  json_messages |-> d.json_messages, calls |-> r.calls,
                  logged |-> r.logged, raised |-> "none"]

\* __ws_handler up to its loop: await client.send("/Device/")
ReaderStart ==
    /\ reader = "start"
    /\ IF socket = "open"
       THEN /\ sent' = <<Ws("/Device/")>>
            /\ reader' = "recv"
            /\ UNCHANGED hist
       ELSE \* send raises ConnectionClosed, which the handler does not catch
            /\ sent' = << >>
            /\ reader' = "failed"
            /\ hist' = ReaderEnded(hist)
    /\ receive_data_buffer' = ""
    /\ op' = BaseOp("reader_start")
    /\ calls' = << >> /\ notified' = << >> /\ logged' = << >>
    /\ raised' = "none"
    /\ UNCHANGED <<http_fallback, locks, tasks, dataVars, connection_subscriptions,
                   ws_client_connected, ws_client, loginResponse, ws_task,
                   reconnect_task, caller, socket, wire, device_sent,
                   delivered>>

\* data = await client.recv() returns, and the rest of the loop body
ReaderRecv ==
    /\ reader = "recv"
    /\ wire # << >>
    /\ \E r \in {ReadData(json_state, data_subscriptions, receive_data_buffer,
                          Head(wire))} :
        /\ json_state' = r.state
        /\ data_subscriptions' = r.subs
        /\ receive_data_buffer' = r.buffer
        /\ delivered' = delivered \o r.json_messages
        /\ calls' = r.calls
        /\ logged' = r.logged
        /\ \E h \in {HeldAll(held, json_state, data_subscriptions,
                             r.json_messages, FALSE)} :
            /\ held' = h.held
            /\ op' = [BaseOp("recv") EXCEPT !.changed = h.changed]
        \* an exception that leaves the loop body ends the handler task
        /\ reader' = IF r.raised # "none" THEN "failed" ELSE reader
        /\ hist' = IF r.raised # "none" THEN ReaderEnded(hist) ELSE hist
    /\ wire' = Tail(wire)
    /\ notified' = << >> /\ sent' = << >>
    /\ raised' = "none"
    /\ UNCHANGED <<http_fallback, locks, tasks, connection_subscriptions, ws_client_connected,
                   ws_client, loginResponse, ws_task, reconnect_task, caller,
                   socket, device_sent>>

\* a handler that starts the reconnection and goes on reading
ReaderClosed_KeepsReading ==
    /\ reader = "recv"
    /\ socket = "closed"
    /\ wire = << >>
    /\ reconnect_task' = "login"
    /\ hist' = [LoopStarted(hist) EXCEPT
                  !.outage = TRUE, !.false_notified = FALSE,
                  !.login_unannounced = FALSE,
                  !.drop_subs = data_subscriptions]
    /\ op' = BaseOp("reader_closed")
    /\ logged' = <<"debug: Websocket Connection closed">>
    /\ calls' = << >> /\ notified' = << >> /\ sent' = << >>
    /\ raised' = "none"
    /\ UNCHANGED <<http_fallback, locks, tasks, dataVars, connection_subscriptions,
                   ws_client_connected, ws_client, loginResponse, ws_task,
                   reader, caller, socket, readerVars>>

\* a handler that forgets the registrations when the stream drops
ReaderClosed_DropsRegistry ==
    /\ reader = "recv"
    /\ socket = "closed"
    /\ wire = << >>
    /\ reader' = "done"
    /\ reconnect_task' = "login"
    /\ hist' = [LoopStarted(ReaderEnded(hist)) EXCEPT
                  !.outage = TRUE, !.false_notified = FALSE,
                            !.login_unannounced = FALSE,
                            !.drop_subs = data_subscriptions]
    /\ op' = BaseOp("reader_closed")
    /\ logged' = <<"debug: Websocket Connection closed">>
    /\ calls' = << >> /\ notified' = << >> /\ sent' = << >>
    /\ raised' = "none"
    /\ data_subscriptions' = NoSubscriptions
    /\ UNCHANGED <<http_fallback, locks, tasks, json_state, held, connection_subscriptions,
                   ws_client_connected, ws_client, loginResponse, ws_task,
                   caller, socket, readerVars>>

\* await client.recv() raises ConnectionClosedOK or ConnectionClosedError
ReaderClosed ==
    /\ reader = "recv"
    /\ socket = "closed"
    /\ wire = << >>
    /\ reader' = "done"
    /\ reconnect_task' = "login"
    /\ hist' = [LoopStarted(ReaderEnded(hist)) EXCEPT
                  !.outage = TRUE, !.false_notified = FALSE,
                            !.login_unannounced = FALSE,
                            !.drop_subs = data_subscriptions]
    /\ op' = BaseOp("reader_closed")
    /\ logged' = <<"debug: Websocket Connection closed">>
    /\ calls' = << >> /\ notified' = << >> /\ sent' = << >>
    /\ raised' = "none"
    /\ UNCHANGED <<http_fallback, locks, tasks, dataVars, connection_subscriptions,
                   ws_client_connected, ws_client, loginResponse, ws_task,
                   caller, socket, readerVars>>

-----------------------------------------------------------------------------
(* Reconnection Supervisor: reconnect_coroutine *)

ReconnectError == "error: Could not reconnect to NAX"

\* where reconnect_coroutine goes once http_login has returned
AfterReconnectLogin_AlwaysUpgrades(http_connect) == "upgrade"

AfterReconnectLogin(http_connect) == IF http_connect THEN "upgrade" ELSE "sleep"

\* http_connect, http_msg = await self.http_login(), and the failure branch
\* when the login did not succeed
ReconnectLogin(outcome) ==
    /\ reconnect_task = "login"
    /\ \E r \in {HttpLogin(loginResponse, outcome)} :
        /\ loginResponse' = r.loginResponse
        /\ IF r.raised # "none"
           THEN \* the exception ends the task; nobody awaits it
                /\ reconnect_task' = "crashed"
                /\ logged' = << >> /\ notified' = << >>
                /\ UNCHANGED ws_client_connected
                /\ hist' = [LoopEnded(AfterLogin(hist, FALSE)) EXCEPT
                              !.login_unannounced =
                                  ws_client_connected \/ ~hist.false_notified]
           ELSE /\ reconnect_task' = AfterReconnectLogin(r.ok)
                /\ IF r.ok
                   THEN /\ logged' = << >> /\ notified' = << >>
                        /\ UNCHANGED ws_client_connected
                        /\ hist' = [AfterLogin(hist, TRUE) EXCEPT
                                      !.login_unannounced =
                                          ws_client_connected \/ ~hist.false_notified]
                   ELSE /\ logged' = <<ReconnectError>>
                        /\ ws_client_connected' = FALSE
                        /\ notified' = Notify(connection_subscriptions, FALSE)
                        /\ hist' = [AfterLogin(hist, FALSE) EXCEPT
                                      !.login_unannounced =
                                          ws_client_connected \/ ~hist.false_notified,
                                      !.false_notified = TRUE]
    /\ op' = [BaseOp("reconnect_login") EXCEPT !.arg = outcome]
    /\ calls' = << >> /\ sent' = << >>
    /\ raised' = "none"
    /\ UNCHANGED <<http_fallback, locks, tasks, dataVars, connection_subscriptions,
                   ws_client, ws_task, reader, caller, socket, readerVars>>

\* ws_connect, ws_msg = await self.async_upgrade_websocket(), up to the handshake
ReconnectUpgradeBegin ==
    /\ reconnect_task = "upgrade"
    /\ reconnect_task' = "connecting"
    /\ op' = BaseOp("reconnect_upgrade_begin")
    /\ UpgradeBegin
    /\ UNCHANGED caller

\* the same call from the handshake on, and the failure branch
ReconnectUpgradeEnd(outcome) ==
    /\ reconnect_task = "connecting"
    /\ \E r \in {UpgradeResult(outcome)} :
        IF r.ok
        THEN /\ UpgradeEnd(r)
             /\ reconnect_task' = "done"
        ELSE /\ reconnect_task' = IF r.raised # "none" THEN "crashed" ELSE "sleep"
             /\ ws_client_connected' =
                    IF r.raised # "none" THEN ws_client_connected ELSE FALSE
             /\ notified' =
                    IF r.raised # "none" THEN << >>
                    ELSE Notify(connection_subscriptions, FALSE)
             /\ logged' =
                    IF r.raised # "none" THEN r.logged
                    ELSE r.logged \o <<ReconnectError>>
             /\ hist' = IF r.raised # "none" THEN LoopEnded(hist)
                        ELSE [hist EXCEPT !.false_notified = TRUE]
             /\ calls' = << >> /\ sent' = << >>
             /\ UNCHANGED <<http_fallback, locks, tasks, dataVars, connection_subscriptions,
                            ws_client, loginResponse, ws_task, reader, socket,
                            readerVars>>
    /\ op' = [BaseOp("reconnect_upgrade") EXCEPT !.arg = outcome]
    /\ raised' = "none"
    /\ UNCHANGED caller

\* await asyncio.sleep(3) returns
ReconnectSleep ==
    /\ reconnect_task = "sleep"
    /\ reconnect_task' = "login"
    /\ op' = BaseOp("reconnect_sleep")
    /\ calls' = << >> /\ notified' = << >> /\ logged' = << >> /\ sent' = << >>
    /\ raised' = "none"
    /\ UNCHANGED <<http_fallback, locks, tasks, dataVars, connection_subscriptions,
                   ws_client_connected, ws_client, loginResponse, ws_task,
                   reader, caller, socket, hist, readerVars>>

-----------------------------------------------------------------------------
(* Public contract: subscribe_connection_updates, put_data, logout *)

ConnectionCallbacks == {"K1", "K2"}

\* at most MaxConnSubs connection callbacks are registered
MaxConnSubs == 2

\* api.subscribe_connection_updates(callback, trigger_current_value)
SubscribeConnection(callback, trigger_current_value) ==
    /\ Len(connection_subscriptions) < MaxConnSubs
    /\ connection_subscriptions' = Append(connection_subscriptions, callback)
    /\ notified' = IF trigger_current_value
                   THEN <<Notification(callback, ws_client_connected)>>
                   ELSE << >>
    /\ op' = [BaseOp("subscribe_connection") EXCEPT
                !.cb = callback, !.trigger = trigger_current_value]
    /\ calls' = << >> /\ logged' = << >> /\ sent' = << >>
    /\ raised' = "none"
    /\ UNCHANGED <<http_fallback, locks, tasks, dataVars, ws_client_connected, ws_client,
                   loginResponse, ws_task, reader, reconnect_task, caller,
                   socket, hist, readerVars>>

\* "sep".join(parts)
RECURSIVE Join(_, _)
Join(parts, sep) ==
    IF parts = << >> THEN ""
    ELSE IF Len(parts) = 1 THEN parts[1]
    ELSE parts[1] \o sep \o Join(Tail(parts), sep)

\* f"/{data_path.replace('.', '/')}"
RequestPath(data_path) == "/" \o Join(Split(data_path, "."), "/")

\* what a fallback POST meets
PostOutcomes == {"success", "error_status", "network_error"}

\* self.__post_request(path, json_data), then the await of what it returned
PostRequest(login_response, path, json_data, outcome) ==
    IF login_response = "none"
    THEN [sent |-> << >>,
          logged |-> <<"error: Login response is None, cannot perform POST request">>,
          raised |-> "TypeError"]
    ELSE [sent |-> <<Http("POST", path, Dumps(json_data))>>,
          logged |-> IF outcome = "error_status"
                     THEN <<"error: Post request failed">> ELSE << >>,
          raised |-> IF outcome = "network_error" THEN "TransportError"
                     ELSE "TypeError"]

PutData_AlsoPosts(connected, client, sock, login_response, data_path, json_data, outcome) ==
    LET post == PostRequest(login_response, RequestPath(data_path), json_data, outcome)
    IN  IF connected /\ client # "none" /\ sock = "open"
        THEN [post EXCEPT !.sent = <<Ws(Dumps(json_data))>> \o post.sent]
        ELSE post

\* put_data(data_path, json_data) in the connection state given: what it
\* sends, what it logs and what it raises
PutData(connected, client, sock, login_response, data_path, json_data, outcome) ==
    IF connected /\ client # "none"
    THEN IF sock = "open"
         THEN [sent |-> <<Ws(Dumps(json_data))>>, logged |-> << >>,
               raised |-> "none"]
         ELSE [sent |-> << >>, logged |-> << >>, raised |-> "ConnectionClosed"]
    ELSE PostRequest(login_response, RequestPath(data_path), json_data, outcome)

Zones == {"Zone01"}
Volumes == {0, 750}

\* the json_data literal of set_zone_volume
ZoneVolumeJson(zone_output, volume) ==
    Obj1("Device", Obj1("ZoneOutputs", Obj1("Zones", Obj1(zone_output,
        Obj1("ZoneAudio", Obj1("Volume", JInt(volume)))))))

\* the data_path f-string of set_zone_volume
ZoneVolumePath(zone_output) ==
    "Device.ZoneOutputs.Zones." \o zone_output \o ".ZoneAudio.Volume"

\* api.set_zone_volume(zone_output, volume)
SetZoneVolume(zone_output, volume, outcome) ==
    /\ \E r \in {PutData(ws_client_connected, ws_client, socket, loginResponse,
                         ZoneVolumePath(zone_output),
                         ZoneVolumeJson(zone_output, volume), outcome)} :
        /\ sent' = r.sent
        /\ logged' = r.logged
        /\ raised' = r.raised
    /\ op' = [BaseOp("set_zone_volume") EXCEPT
                !.path = ZoneVolumePath(zone_output),
                !.frame = ZoneVolumeJson(zone_output, volume)]
    /\ calls' = << >> /\ notified' = << >>
    /\ UNCHANGED <<http_fallback, locks, tasks, dataVars, connVars, readerVars>>

\* what the GET of /logout meets
GetOutcomes == {"success", "error_status", "network_error"}

\* threading.Thread(target=close_ws_client).start(): with a client the
\* thread waits in future.result() for a coroutine scheduled on a loop that
\* is never run; without one it closes the loop and ends
CloseWsClient(client) == IF client # "none" THEN "blocked" ELSE "done"

\* async_unload_entry: api.logout()
Logout(outcome) ==
    /\ caller = "ready"
    /\ IF loginResponse # "none" /\ outcome = "network_error"
       THEN \* httpx.get raises and logout stops at its first statement
            /\ sent' = <<Http("GET", "/logout", "")>>
            /\ raised' = "TransportError"
            /\ logged' = << >>
            /\ UNCHANGED <<json_state, held, loginResponse, ws_client_connected,
                           ws_task, reader, caller, hist>>
       ELSE /\ sent' = IF loginResponse = "none" THEN << >>
                       ELSE <<Http("GET", "/logout", "")>>
            /\ logged' =
                 IF loginResponse = "none"
                 THEN <<"error: Login response is None, cannot perform GET request">>
                 ELSE IF outcome = "error_status"
                      THEN <<"error: Get request failed">> ELSE << >>
            /\ raised' = "none"
            /\ loginResponse' = "none"
            /\ ws_client_connected' = FALSE
            /\ json_state' = EmptyDict
            /\ held' = NoHeld
            \* self._ws_task.cancel(); self._ws_task = None
            /\ reader' = IF ws_task # "none" /\ reader \in {"start", "recv"}
                         THEN "cancelled" ELSE reader
            /\ ws_task' = "none"
            /\ caller' = "unloaded"
            /\ hist' = [(IF ws_task # "none" /\ reader \in {"start", "recv"}
                         THEN ReaderEnded(hist) ELSE hist)
                        EXCEPT !.teardown = CloseWsClient(ws_client)]
    /\ op' = [BaseOp("logout") EXCEPT !.arg = outcome]
    /\ calls' = << >> /\ notified' = << >>
    \* close_ws_client waits for a coroutine scheduled on a loop nobody runs:
    \* _ws_client and the socket stay as they are
    /\ UNCHANGED <<http_fallback, locks, tasks, data_subscriptions, connection_subscriptions,
                   ws_client, reconnect_task, socket, readerVars>>

\* logout() on an executor thread (async_unload_entry) while the handler, on
\* the event loop, is inside its loop body with the data recv() returned.
\* cancel() takes effect at the handler's next await only, so the body runs
\* to its end: the merge meets the new document or the one logout discards,
\* depending on which thread reads self._json_state first.
LogoutDuringRecv(outcome, document) ==
    /\ caller = "ready"
    /\ reader = "recv"
    /\ ws_task # "none"
    /\ wire # << >>
    /\ loginResponse # "none"
    /\ outcome # "network_error"
    /\ \E r \in {ReadData(IF document = "new" THEN EmptyDict ELSE json_state,
                          data_subscriptions, receive_data_buffer, Head(wire))} :
        /\ json_state' = IF document = "new" THEN r.state ELSE EmptyDict
        /\ held' = IF document = "new"
                   THEN HeldAll(NoHeld, EmptyDict, data_subscriptions,
                                r.json_messages, FALSE).held
                   ELSE NoHeld
        /\ data_subscriptions' = r.subs
        /\ receive_data_buffer' = r.buffer
        /\ delivered' = delivered \o r.json_messages
        /\ calls' = r.calls
        /\ logged' = (IF outcome = "error_status"
                      THEN <<"error: Get request failed">> ELSE << >>) \o r.logged
    /\ wire' = Tail(wire)
    /\ sent' = <<Http("GET", "/logout", "")>>
    /\ raised' = "none"
    /\ loginResponse' = "none"
    /\ ws_client_connected' = FALSE
    /\ reader' = "cancelled"
    /\ ws_task' = "none"
    /\ caller' = "unloaded"
    /\ hist' = [ReaderEnded(hist) EXCEPT !.teardown = CloseWsClient(ws_client)]
    /\ op' = [BaseOp("logout_during_recv") EXCEPT !.arg = outcome]
    /\ notified' = << >>
    /\ UNCHANGED <<http_fallback, locks, tasks, connection_subscriptions, ws_client,
                   reconnect_task, socket, device_sent>>

-----------------------------------------------------------------------------
(* Public contract: get_data *)

\* what the one-shot GET meets: a transport failure, a status that is not
\* 2xx, or a 2xx response whose body is JSON or is not
GetFailed(kind) == [kind |-> kind, body |-> None]
GetJson(body) == [kind |-> "json", body |-> body]
GetText(text) == [kind |-> "text", body |-> JStr(text)]

\* self.__get_request(path): what it sends, logs, raises and returns
GetRequest(login_response, path, response) ==
    IF login_response = "none"
    THEN [sent |-> << >>,
          logged |-> <<"error: Login response is None, cannot perform GET request">>,
          raised |-> "none", value |-> None]
    ELSE LET get == <<Http("GET", path, "")>>
         IN  CASE response.kind = "network_error" ->
                    [sent |-> get, logged |-> << >>,
                     raised |-> "TransportError", value |-> None]
               [] response.kind = "error_status" ->
                    [sent |-> get, logged |-> <<"error: Get request failed">>,
                     raised |-> "none", value |-> None]
               [] response.kind = "redirect" ->
                    [sent |-> get, logged |-> << >>, raised |-> "none",
                     value |-> None]
               [] OTHER ->
                    \* get_request.json(), or get_request.text on JSONDecodeError
                    [sent |-> get, logged |-> << >>, raised |-> "none",
                     value |-> response.body]

\* get_data storing what the GET returned into the State Document
GetDataCall_FillsCache(state, fallback, login_response, data_path, response) ==
    LET g == GetRequest(login_response, RequestPath(data_path), response)
    IN  [state |-> IF IsDict(g.value) THEN g.value ELSE state,
         result |-> GetValueByJsonPath(g.value, data_path),
         sent |-> g.sent, logged |-> g.logged, raised |-> g.raised]

\* get_data(data_path) on State Document state: the document afterwards,
\* what is returned, sent, logged and raised
GetDataCall(state, fallback, login_response, data_path, response) ==
    LET json_state_data == GetValueByJsonPath(state, data_path)
        quiet(value) == [state |-> state, result |-> value, sent |-> << >>,
                         logged |-> << >>, raised |-> "none"]
    IN  IF json_state_data # None THEN quiet(json_state_data)
        ELSE IF fallback
             THEN LET g == GetRequest(login_response, RequestPath(data_path),
                                      response)
                  IN  [state |-> state,
                       result |-> IF g.raised # "none" THEN None
                                  ELSE GetValueByJsonPath(g.value, data_path),
                       sent |-> g.sent, logged |-> g.logged,
                       raised |-> g.raised]
             ELSE quiet(None)

\* api.get_data(data_path)
GetData(data_path, response) ==
    /\ \E r \in {GetDataCall(json_state, http_fallback, loginResponse,
                             data_path, response)} :
        /\ json_state' = r.state
        /\ sent' = r.sent
        /\ logged' = r.logged
        /\ raised' = r.raised
        /\ op' = [BaseOp("get_data") EXCEPT !.path = data_path,
                                            !.arg = response.kind,
                                            !.frame = response.body,
                                            !.result = r.result]
    /\ calls' = << >> /\ notified' = << >>
    /\ UNCHANGED <<http_fallback, locks, tasks, held, data_subscriptions, connVars, readerVars>>

-----------------------------------------------------------------------------
(* The device *)

\* the device, or the network, closes the connection
DeviceClose ==
    /\ socket = "open"
    /\ socket' = "closed"
    /\ UNCHANGED <<http_fallback, locks, tasks, dataVars, connection_subscriptions,
                   ws_client_connected, ws_client, loginResponse, ws_task,
                   reader, reconnect_task, caller, hist, readerVars,
                   op, calls, notified, logged, sent, raised>>

\* the device writes value as one text message
DeviceSend(value) ==
    /\ socket = "open"
    /\ wire' = Append(wire, TextData(CompactDumps(value)))
    /\ device_sent' = Append(device_sent, value)
    /\ UNCHANGED <<http_fallback, locks, tasks, dataVars, connVars, receive_data_buffer,
                   delivered, op, calls, notified, logged, sent, raised>>

\* the device writes the serialized text of value, which reaches the reader
\* in two reads: text messages cut after cut characters, or binary messages
\* cut after cut bytes
DeviceSendInTwo(text, binary, cut) ==
    /\ socket = "open"
    /\ wire' = wire \o
         (IF binary
          THEN LET b == Utf8Encode(text)
               IN  <<BinaryData(SubSeq(b, 1, cut)),
                     BinaryData(SubSeq(b, cut + 1, Len(b)))>>
          ELSE <<TextData(SubSeq(text, 1, cut)),
                 TextData(SubSeq(text, cut + 1, Len(text)))>>)
    /\ UNCHANGED <<http_fallback, locks, tasks, dataVars, connVars, receive_data_buffer,
                   delivered, op, calls, notified, logged, sent, raised>>

-----------------------------------------------------------------------------
(* ConnSpec: the connection life cycle, from async_setup_entry on, against *)
(* a device that answers, fails and closes as it pleases.                  *)

\* async_setup_entry: NaxApi(ip, username, password, http_fallback=True)
ConnInit ==
    /\ http_fallback = TRUE
    /\ json_state = EmptyDict
    /\ ConstructedRest

LifeCycle ==
    \/ \E o \in LoginOutcomes : SetupLogin(o)
    \/ SetupUpgradeBegin
    \/ \E o \in UpgradeOutcomes : SetupUpgradeEnd(o)
    \/ ReaderStart
    \/ ReaderClosed
    \/ \E o \in LoginOutcomes : ReconnectLogin(o)
    \/ ReconnectUpgradeBegin
    \/ \E o \in UpgradeOutcomes : ReconnectUpgradeEnd(o)
    \/ ReconnectSleep
    \/ \E o \in GetOutcomes : Logout(o)
    \/ DeviceClose

ConnNext ==
    \/ LifeCycle
    \/ \E c \in ConnectionCallbacks, t \in BOOLEAN : SubscribeConnection(c, t)

ConnSpec == ConnInit /\ [][ConnNext]_vars

-----------------------------------------------------------------------------
(* PutSpec: set_zone_volume called at any moment of the connection life    *)
(* cycle, with frames arriving on the stream.                              *)

\* the device writes at most MaxFrames frames per connection
MaxFrames == 1

PutNext ==
    \/ LifeCycle
    \/ \E z \in Zones, v \in Volumes, o \in PostOutcomes : SetZoneVolume(z, v, o)
    \/ Len(device_sent) < MaxFrames /\ DeviceSend(FrameZ)
    \/ ReaderRecv

\* NaxApi is constructed with http_fallback=True by async_setup_entry and
\* without it (False) by nax/__main__.py
PutInit == Constructed

PutSpec == PutInit /\ [][PutNext]_vars

-----------------------------------------------------------------------------
(* GetSpec: one frame ingested into the empty State Document, then         *)
(* get_data for every bounded path, with and without a stored login        *)
(* response, against every answer to the one-shot GET.                     *)

GetLeaves == {JInt(1), None}
GetInner == DictsOver({"A"}, GetLeaves)
GetDocuments ==
    DictsOver(MergeKeys, GetLeaves \cup MergeLists \cup GetInner)
        \cup {Obj1("X", Obj1("Y", Obj1("Z", JInt(3)))),
              Obj2("A", Obj2("A", Obj1("A", JInt(1)), "B", JInt(2)), "B", EmptyDict)}

GetPaths == {"A", "B", "A.A", "A.B", "A.A.A", "X.Y.Z", "X.Q", ""}

GetResponses == {GetFailed("network_error"), GetFailed("error_status"),
                 GetFailed("redirect"), GetText("<html>"),
                 GetJson(Obj1("A", Obj1("A", JInt(7)))),
                 GetJson(JList(<<JInt(7)>>))}

GetNext ==
    \/ \E o \in LoginOutcomes : SetupLogin(o)
    \/ \E f \in GetDocuments : json_state = EmptyDict /\ ProcessMessage(f)
    \/ \E p \in GetPaths, r \in GetResponses : GetData(p, r)

GetSpec == Constructed /\ [][GetNext]_vars

-----------------------------------------------------------------------------
(* ReaderSpec: the reader of an established stream fed the serialized text *)
(* of one JSON object in two reads.                                        *)

\* the stream is up and the reader waits in recv()
Streaming ==
    /\ http_fallback = TRUE
    /\ json_state = EmptyDict
    /\ held = NoHeld
    /\ locks = NoLocks
    /\ tasks = NoTasks
    /\ data_subscriptions = NoSubscriptions
    /\ connection_subscriptions = << >>
    /\ ws_client_connected = TRUE
    /\ ws_client = "client"
    /\ loginResponse = "ok"
    /\ ws_task = "task"
    /\ reader = "recv"
    /\ reconnect_task = "none"
    /\ receive_data_buffer = ""
    /\ caller = "ready"
    /\ socket = "open"
    /\ wire = << >>
    /\ device_sent = << >>
    /\ delivered = << >>
    /\ hist = [NoHist EXCEPT !.login_ok = TRUE, !.upgrade_ok = TRUE,
                             !.readers = 1]
    /\ op = [NoOp EXCEPT !.name = "reader_start"]
    /\ calls = << >>
    /\ notified = << >>
    /\ logged = << >>
    /\ sent = <<Ws("/Device/")>>
    /\ raised = "none"

ReaderValues == {Obj1("A", JInt(1)),
                 EmptyDict,
                 Obj2("A", Obj1("B", JList(<<JInt(12), None>>)), "C", JBool(TRUE)),
                 Obj1("A", JStr("}{")),
                 Obj1("A", JStr("é"))}

\* the device serializes value in one of the two styles and writes it
DeviceWrite(value, compact, binary, cut) ==
    /\ device_sent = << >>
    /\ LET text == IF compact THEN CompactDumps(value) ELSE Dumps(value)
       IN  /\ cut < (IF binary THEN Len(Utf8Encode(text)) ELSE Len(text))
           /\ DeviceSendInTwo(text, binary, cut)
    /\ device_sent' = <<value>>

\* no cut of the bounded values lies beyond MaxCut
MaxCut == 30

ReaderNext ==
    \/ \E v \in ReaderValues, compact \in BOOLEAN, binary \in BOOLEAN,
          cut \in 1..MaxCut : DeviceWrite(v, compact, binary, cut)
    \/ ReaderRecv

ReaderSpec == Streaming /\ [][ReaderNext]_vars

-----------------------------------------------------------------------------
(* Properties of the Merge Engine, checked under MergeSpec *)

Range(s) == {s[i] : i \in 1..Len(s)}

PathsOf(doc) == Range(GetJsonPaths(doc, ""))

\* path p holds value v in document doc
Holds(doc, p, v) == p \in PathsOf(doc) /\ GetValueByJsonPath(doc, p) = v

\* path p lies below path q
Below(p, q) ==
    /\ Len(p) > Len(q) + 1
    /\ SubSeq(p, 1, Len(q) + 1) = q \o "."

IsScalar(x) == x.t \in {"int", "null", "str"}

\* the scalar leaves of fragment F are stored in document doc
ScalarLeavesStored(doc, F) ==
    \A p \in PathsOf(F) :
        IsScalar(GetValueByJsonPath(F, p)) => Holds(doc, p, GetValueByJsonPath(F, p))

\* a merge of a non-empty map fragment has just run
MergedFragment ==
    op.name = "merge" /\ IsDict(op.frame) /\ DOMAIN op.frame.v # {}

\* C2 as stated: after merge(D, F) with F a non-empty map, every key path of
\* D that is not a path of F keeps its previous value, and every scalar leaf
\* path of F resolves in D to the value F gives it.
C2_AsStated ==
    MergedFragment =>
        /\ \A p \in PathsOf(op.pre_state) \ PathsOf(op.frame) :
               Holds(json_state, p, GetValueByJsonPath(op.pre_state, p))
        /\ ScalarLeavesStored(json_state, op.frame)

\* C2 amended: after merge(D, F) with F a non-empty map, every key path of D
\* that is not a path of F and does not lie below a path at which F holds a
\* value that is not a map keeps its previous value, and every scalar leaf
\* path of F resolves in D to the value F gives it, whatever the type of the
\* value stored there before.
C2_MergeOverwrite ==
    MergedFragment =>
        /\ \A p \in PathsOf(op.pre_state) \ PathsOf(op.frame) :
               (\A q \in PathsOf(op.frame) :
                    Below(p, q) => IsDict(GetValueByJsonPath(op.frame, q)))
               => Holds(json_state, p, GetValueByJsonPath(op.pre_state, p))
        /\ ScalarLeavesStored(json_state, op.frame)

\* D = {"A": {"A": 1, "B": 2}, "B": {"A": 1}} merged with
\* F = {"A": {"A": 2}, "B": 2}: A.B survives, A.A is overwritten, the map at
\* B is replaced by a scalar.
C2_Witness ==
    /\ op.name = "merge"
    /\ op.pre_state = Obj2("A", Obj2("A", JInt(1), "B", JInt(2)),
                           "B", Obj1("A", JInt(1)))
    /\ op.frame = Obj2("A", Obj1("A", JInt(2)), "B", JInt(2))
    /\ json_state = Obj2("A", Obj2("A", JInt(2), "B", JInt(2)), "B", JInt(2))

\* C3: merge(D, {}) and merge(D, None) leave the State Document D equal to
\* its value before the call.
C3_EmptyFragmentNoOp ==
    (op.name = "merge" /\ op.frame \in {EmptyDict, None})
        => json_state = op.pre_state

C3_Witness ==
    /\ op.name = "merge"
    /\ op.frame = None
    /\ op.pre_state = Obj1("A", Obj1("B", JInt(1)))
    /\ json_state = op.pre_state

-----------------------------------------------------------------------------
(* Properties of the State Store & Dispatcher, checked under Spec *)

\* a state frame: a map without the Actions envelope
IsStateFrame(f) == IsDict(f) /\ "Actions" \notin DOMAIN f.v

\* the invocations of callback c for path p made by the last operation
CallsOf(c, p) == SelectSeq(calls, LAMBDA x : x.cb = c /\ x.path = p)

\* callback c, registered once under p, got its due from the frame just ingested
DueDelivered(c, p) ==
    IF p \in PathsOf(op.frame)
    THEN CallsOf(c, p) = <<Call(c, p, GetValueByJsonPath(op.frame, p))>>
    ELSE CallsOf(c, p) = << >>

\* C1: for every (p, C) with C registered once under p, ingesting a state
\* frame F invokes C exactly once with (p, value) when p is a path of F and
\* does not invoke C when p is not a path of F.
C1_AsStated ==
    (op.name = "process" /\ IsStateFrame(op.frame)) =>
        \A p \in DOMAIN op.pre_subs : \A c \in Callbacks :
            CountIn(op.pre_subs[p], c) = 1 => DueDelivered(c, p)

\* C1 where the code meets it: the same, when every callback registered
\* under a path of F is a plain one (none raises, none unsubscribes).
C1_PlainObservers ==
    (/\ op.name = "process" /\ IsStateFrame(op.frame)
     /\ \A q \in DOMAIN op.pre_subs \cap PathsOf(op.frame) :
            Range(op.pre_subs[q]) \subseteq PlainCallbacks) =>
        \A p \in DOMAIN op.pre_subs : \A c \in Callbacks :
            CountIn(op.pre_subs[p], c) = 1 => DueDelivered(c, p)

\* C4 as stated: subscribe_data_updates(p, C, trigger_current_value=True)
\* invokes C exactly once with (p, current value) whenever the State Document
\* holds a value at p, and not at all when p is not resolvable or the flag is
\* False; no frame is ingested.
C4_AsStated ==
    op.name = "subscribe" =>
        /\ json_state = op.pre_state
        /\ IF op.trigger /\ op.path \in PathsOf(op.pre_state)
           THEN calls = <<Call(op.cb, op.path,
                               GetValueByJsonPath(op.pre_state, op.path))>>
           ELSE calls = << >>

\* C4 amended: subscribe_data_updates(p, C, trigger_current_value=True)
\* invokes C exactly once with (p, current value) before it returns whenever
\* the State Document holds a value other than null at p, with no new frame
\* ingested; it does not invoke C at registration when p is not a path of the
\* State Document, when the value at p is null, or when the flag is False.
C4_TriggerCurrentValue ==
    op.name = "subscribe" =>
        /\ json_state = op.pre_state
        /\ IF /\ op.trigger
              /\ op.path \in PathsOf(op.pre_state)
              /\ GetValueByJsonPath(op.pre_state, op.path) # None
           THEN calls = <<Call(op.cb, op.path,
                               GetValueByJsonPath(op.pre_state, op.path))>>
           ELSE calls = << >>

C4_Witness ==
    /\ op.name = "subscribe" /\ op.trigger
    /\ op.pre_state = FrameZ
    /\ calls = <<Call("C2", "X.Y.Z", JInt(9))>>

\* C5: after C is subscribed once to p, the second of two unsubscribe(p, C)
\* calls in a row does not raise and leaves no registration of C under p.
C5_AsStated ==
    (/\ op.name = "unsubscribe" /\ op.repeat
     /\ op.path \in DOMAIN op.pre_subs
     /\ CountIn(op.pre_subs[op.path], op.cb) = 0) =>
        /\ raised = "none"
        /\ CountIn(data_subscriptions[op.path], op.cb) = 0

-----------------------------------------------------------------------------
(* Properties of the Stream Reader, checked under ReaderSpec *)

\* C6: for every JSON object value v and every position at which its
\* serialized text is cut into two consecutive socket reads, the reader
\* forwards no frame after the first read and exactly one frame, equal to v,
\* after the second.
C6_AsStated ==
    device_sent # << >> =>
        delivered = IF wire = << >> THEN device_sent ELSE << >>

\* C6 where the code meets it: the same, when neither read failed to decode
\* as UTF-8 (text messages, or binary ones cut between two characters).
C6_DecodableReads ==
    device_sent # << >> =>
        /\ wire # << >> => delivered = << >>
        /\ (wire = << >> /\ logged = << >>) => delivered = device_sent

\* {"A":1} cut after {"A" has been reassembled into one frame
C6_Reassembled ==
    /\ device_sent = <<Obj1("A", JInt(1))>>
    /\ wire = << >>
    /\ delivered = device_sent
    /\ json_state = Obj1("A", JInt(1))

-----------------------------------------------------------------------------
(* Properties of the connection life cycle, checked under ConnSpec *)

\* some connection callback was told connected=True by the last operation
NotifiedTrue == \E i \in 1..Len(notified) : notified[i].connected

\* C7: when the reader has observed that the socket closed, the connection
\* state is false and connected=False has been delivered to every connection
\* subscriber before the reconnection loop issues a login attempt.
C7_AsStated == ~hist.login_unannounced

\* C8: the connection subscribers are notified of connected=True only by an
\* upgrade that succeeded after the most recent login attempt succeeded; the
\* reconnection loop never notifies connected=True in an attempt whose login
\* or upgrade failed.
C8_TrueOnlyAfterLoginAndUpgrade ==
    /\ (op.name # "subscribe_connection" /\ NotifiedTrue) =>
           /\ op.name \in {"setup_upgrade", "reconnect_upgrade"}
           /\ op.arg = "ok"
           /\ hist.login_ok /\ hist.upgrade_ok
    /\ (op.name \in {"reconnect_login", "reconnect_upgrade"} /\ op.arg # "ok") =>
           ~NotifiedTrue

\* a reconnection ends: both subscribers are told connected=True
C8_Witness ==
    /\ op.name = "reconnect_upgrade" /\ op.arg = "ok"
    /\ notified = <<Notification("K1", TRUE), Notification("K2", TRUE)>>
    /\ hist.login_ok /\ hist.upgrade_ok
    /\ reader = "start"

\* C9: after the reader has observed a stream closure, the reconnection loop
\* keeps attempting login and upgrade, whatever failure an attempt meets,
\* until one attempt succeeds.
C9_AsStated ==
    hist.outage => reconnect_task \in {"login", "upgrade", "connecting", "sleep"}

-----------------------------------------------------------------------------
(* Properties of put_data, checked under PutSpec *)

\* the stream is open: the client holds a connection that it believes
\* connected and that the device has not closed
StreamOpen == ws_client_connected /\ ws_client = "client" /\ socket = "open"

\* the nested object that mirrors the keys of a dotted path, value at the leaf
RECURSIVE NestedFragment(_, _)
NestedFragment(keys, value) ==
    IF keys = << >> THEN value
    ELSE Obj1(Head(keys), NestedFragment(Tail(keys), value))

\* C10: when the stream is open, set_zone_volume(zone, v) sends exactly one
\* WebSocket message, whose JSON body is the nested-object fragment that
\* mirrors the dotted path with v at the leaf, and issues no HTTP request.
C10_OneMessageOverStream ==
    (op.name = "set_zone_volume" /\ StreamOpen) =>
        /\ raised = "none"
        /\ Len(sent) = 1
        /\ sent[1].kind = "ws"
        /\ LET body == RawDecode(sent[1].body)
           IN  /\ body.ok
               /\ body.end = Len(sent[1].body) + 1
               /\ \E v \in Volumes :
                      body.val = NestedFragment(Split(op.path, "."), JInt(v))
               /\ body.val = op.frame

C10_Witness ==
    /\ op.name = "set_zone_volume" /\ StreamOpen
    /\ op.path = "Device.ZoneOutputs.Zones.Zone01.ZoneAudio.Volume"
    /\ sent = <<Ws("{\"Device\": {\"ZoneOutputs\": {\"Zones\": {\"Zone01\": {\"ZoneAudio\": {\"Volume\": 750}}}}}}")>>

\* the client takes the stream for open: put_data's own test
ClientHoldsStream == ws_client_connected /\ ws_client = "client"

\* C11: when the stream is not open and http_fallback is False, put_data
\* sends no WebSocket message and issues no HTTP POST.
C11_AsStated ==
    (op.name = "set_zone_volume" /\ ~ClientHoldsStream /\ ~http_fallback) =>
        sent = << >>

\* C12: when the socket is not open, put_data completes normally, whether
\* the fallback POST succeeds, returns a non-2xx status or is not attempted.
C12_AsStated ==
    (op.name = "set_zone_volume" /\ ~ClientHoldsStream) => raised = "none"

-----------------------------------------------------------------------------
(* Properties of get_data and of the Path Index, checked under GetSpec *)

\* C13: get_data never changes the State Document, for every path, with
\* HTTP fallback enabled or disabled and whatever the one-shot GET returns.
C13_GetLeavesDocument ==
    op.name = "get_data" => json_state = op.pre_state

\* a fallback GET answered with {"A": {"A": 7}} is resolved and not stored
C13_Witness ==
    /\ op.name = "get_data" /\ op.path = "A.A" /\ op.arg = "json"
    /\ sent = <<Http("GET", "/A/A", "")>>
    /\ op.result = JInt(7)
    /\ json_state = Obj1("B", JInt(1))
    /\ json_state = op.pre_state

\* C14: if some segment of p is not a key of the map reached by the
\* segments before it, resolve returns none; get_data returns a value other
\* than none from the State Document only for paths that the enumeration
\* lists for it.
C14_AsStated ==
    op.name = "get_data" =>
        /\ op.path \notin PathsOf(json_state) =>
               GetValueByJsonPath(json_state, op.path) = None
        /\ (sent = << >> /\ op.result # None) => op.path \in PathsOf(json_state)

\* the dotted paths of the keys of nested map d, one for each key at each depth
RECURSIVE KeyPaths(_)
KeyPaths(d) ==
    UNION {{k} \cup (IF IsDict(d.v[k])
                     THEN {k \o "." \o q : q \in KeyPaths(d.v[k])}
                     ELSE {}) : k \in DOMAIN d.v}

\* the number of keys of nested map d, all depths together
RECURSIVE KeyCount(_)
KeyCount(d) ==
    IF DOMAIN d.v = {} THEN 0
    ELSE LET k == CHOOSE x \in DOMAIN d.v : TRUE
             rest == JDict([x \in DOMAIN d.v \ {k} |-> d.v[x]])
         IN  1 + (IF IsDict(d.v[k]) THEN KeyCount(d.v[k]) ELSE 0) + KeyCount(rest)

\* C15: the path enumeration of a nested map contains exactly one dotted
\* path for each key at each depth, intermediate-map keys as well as leaf
\* keys, and nothing else; for {X:{Y:{Z:3}}} it is exactly X, X.Y, X.Y.Z.
C15_PathEnumeration ==
    (op.name = "process" /\ IsDict(op.frame)) =>
        LET paths == GetJsonPaths(op.frame, "")
        IN  /\ Range(paths) = KeyPaths(op.frame)
            /\ Len(paths) = KeyCount(op.frame)
            /\ op.frame = Obj1("X", Obj1("Y", Obj1("Z", JInt(3)))) =>
                   Range(paths) = {"X", "X.Y", "X.Y.Z"}

C15_Witness ==
    /\ op.name = "process"
    /\ op.frame = Obj1("X", Obj1("Y", Obj1("Z", JInt(3))))
    /\ json_state = op.frame
    /\ Len(GetJsonPaths(op.frame, "")) = 3

-----------------------------------------------------------------------------
(* Properties of the Session Manager, checked under ConnSpec *)

\* http_login has just returned or raised
LoginReturned == op.name \in {"setup_login", "reconnect_login"}

\* C16: http_login returns (True, message) if and only if the credential
\* POST response has a 2xx status and carries the anti-forgery token header.
C16_AsStated == LoginReturned => (hist.login_ok <=> op.arg = "ok")

\* C17: http_login and async_upgrade_websocket report every connectivity
\* failure (name not resolved, connect timeout, read timeout, refused or
\* reset connection) as a (False, message) result and never raise it.
C17_AsStated ==
    (\/ op.name = "setup_login" /\ op.arg \in {"connect_error", "read_timeout"}
     \/ op.name = "setup_upgrade" /\ op.arg = "connect_error")
        => raised = "none"

\* C18: logout() always ends with the session credentials discarded, the
\* connection state false and the State Document empty, including when the
\* logout GET fails.
C18_AsStated ==
    op.name = "logout" =>
        /\ loginResponse = "none"
        /\ ~ws_client_connected
        /\ json_state = EmptyDict

\* C19: logout() delivers connected=False to every registered connection
\* subscriber.
C19_AsStated ==
    (op.name = "logout" /\ raised = "none") =>
        notified = Notify(connection_subscriptions, FALSE)

-----------------------------------------------------------------------------
(* Properties of the Actions envelope, checked under Spec *)

\* C20: ingesting a frame that contains a top-level Actions key leaves the
\* State Document unchanged and invokes no data callback, whatever other
\* keys the frame carries and whatever status its results hold.
C20_ActionsNotIngested ==
    (op.name = "process" /\ IsDict(op.frame) /\ "Actions" \in DOMAIN op.frame.v) =>
        /\ json_state = op.pre_state
        /\ calls = << >>
        /\ data_subscriptions = op.pre_subs

\* a failed command result that also carries X.Y.Z = 8 reaches a client
\* holding X.Y.Z = 9 with an observer on X.Y.Z: logged, nothing else
C20_Witness ==
    /\ op.name = "process" /\ op.frame = FrameNack
    /\ op.pre_state = FrameZ
    /\ "X.Y.Z" \in DOMAIN op.pre_subs /\ op.pre_subs["X.Y.Z"] # << >>
    /\ json_state = FrameZ
    /\ calls = << >>
    /\ logged = <<"error">>

-----------------------------------------------------------------------------
(* Properties of the resync request, checked under PutSpec *)

\* C21: on every newly opened WebSocket the first message sent is the
\* literal /Device/; under no interleaving of put_data callers with the
\* upgrade is a put_data message sent on the socket before it.  (While
\* reader = "start" the handler of the socket has not yet sent /Device/.)
C21_AsStated ==
    (op.name = "set_zone_volume" /\ sent # << >> /\ sent[1].kind = "ws") =>
        reader # "start"

-----------------------------------------------------------------------------
(* Properties of list values in the merge, checked under MergeSpec *)

\* the keys holding a list both in the document and in the fragment
ListKeys(base, nxt) ==
    {k \in DOMAIN base.v \cap DOMAIN nxt.v : IsList(base.v[k]) /\ IsList(nxt.v[k])}

\* C22: when a key holds a list both in the State Document and in the
\* incoming fragment, merge replaces the stored list by the incoming list
\* and does not concatenate the two; merging a list-valued frame into the
\* document that already equals it leaves the document as it was.
C22_AsStated ==
    (op.name = "merge" /\ IsDict(op.frame)) =>
        /\ \A k \in ListKeys(op.pre_state, op.frame) :
               json_state.v[k] = op.frame.v[k]
        /\ (op.pre_state = op.frame /\ ListKeys(op.pre_state, op.frame) # {})
               => json_state = op.pre_state

-----------------------------------------------------------------------------
(* StreamSpec: the reader of an established stream fed the serialized text *)
(* of two JSON objects, separated or not, in one read or cut into two.     *)

StreamValues == {Obj1("A", JInt(1)), Obj1("B", JInt(2))}

Separators == {"", " ", "\n"}

\* the text of the values, each serialized compactly, sep between them
RECURSIVE StreamText(_, _)
StreamText(values, sep) ==
    IF values = << >> THEN ""
    ELSE IF Len(values) = 1 THEN CompactDumps(values[1])
    ELSE CompactDumps(values[1]) \o sep \o StreamText(Tail(values), sep)

\* the device writes the values; the text reaches the reader as text
\* messages, whole (cut at its end) or cut after cut characters
DeviceStream(values, sep, cut) ==
    /\ socket = "open"
    /\ device_sent = << >>
    /\ LET text == StreamText(values, sep)
       IN  /\ cut <= Len(text)
           /\ wire' = IF cut = Len(text) THEN <<TextData(text)>>
                      ELSE <<TextData(SubSeq(text, 1, cut)),
                             TextData(SubSeq(text, cut + 1, Len(text)))>>
    /\ device_sent' = values
    /\ UNCHANGED <<http_fallback, locks, tasks, dataVars, connVars, receive_data_buffer,
                   delivered, op, calls, notified, logged, sent, raised>>

StreamNext ==
    \/ \E a \in StreamValues, b \in StreamValues, sep \in Separators,
          cut \in 1..MaxCut : DeviceStream(<<a, b>>, sep, cut)
    \/ ReaderRecv

StreamSpec == Streaming /\ [][StreamNext]_vars

-----------------------------------------------------------------------------
(* Properties of the framing, checked under StreamSpec *)

\* C23: for every sequence of JSON objects sent by the device, optionally
\* separated by whitespace or newlines, the frames forwarded to ingestion
\* are the same for every way of cutting the serialized stream into socket
\* reads: once every read has been taken, each value has been forwarded
\* exactly once, in arrival order, wherever the read boundary fell.
C23_AsStated ==
    (device_sent # << >> /\ wire = << >>) => delivered = device_sent

-----------------------------------------------------------------------------
(* Properties of the value handed to data callbacks, checked under Spec *)

\* C24: in ingest, the value passed to a callback for subscribed path p is
\* the value p resolves to in the incoming fragment F, not in the merged
\* State Document: for an intermediate path it contains only the keys
\* present in F, even when the State Document holds further keys under p.
C24_ValueFromFragment ==
    (op.name = "process" /\ IsStateFrame(op.frame)) =>
        \A i \in 1..Len(calls) :
            calls[i].value = GetValueByJsonPath(op.frame, calls[i].path)

\* the document holds X.Y.Z = 9, the frame brings X.Y.W = 1: the observer
\* of X.Y is handed {"W": 1} while the document holds both keys under X.Y
C24_Witness ==
    /\ op.name = "process"
    /\ op.frame = FrameW
    /\ op.pre_state = FrameZ
    /\ calls = <<Call("C1", "X.Y", Obj1("W", JInt(1)))>>
    /\ json_state = Obj1("X", Obj1("Y", Obj2("W", JInt(1), "Z", JInt(9))))

-----------------------------------------------------------------------------
(* Properties of object sharing, checked under Spec *)

\* C25: after merge has inserted a nested map of fragment F under a key
\* that was absent from the State Document, the State Document shares no
\* mutable sub-map with F: a later merge into the State Document changes
\* neither F nor any map value that was passed to a callback from F.
C25_AsStated == ~op.changed

-----------------------------------------------------------------------------
(* FaultSpec: the reader of an established stream fed frames whose         *)
(* processing fails, with observers that raise.                            *)

\* an Actions envelope whose failed result lacks Path, Property and StatusId
FrameMissingFields ==
    Obj1("Actions",
         JList(<<Obj1("Results", JList(<<Obj1("StatusInfo", JStr("Error"))>>))>>))

\* values the device sends: state frames, values that are no JSON object,
\* a malformed envelope
FaultValues == {FrameZ, FrameW, JInt(12), JList(<<JInt(1)>>), FrameMissingFields}

FaultCallbacks == {"R", "C1"}

\* the device sends at most MaxFaultFrames values
MaxFaultFrames == 2

FaultNext ==
    \/ \E c \in FaultCallbacks : SubscribeData("X.Y.Z", c, FALSE)
    \/ \E v \in FaultValues :
          Len(device_sent) < MaxFaultFrames /\ DeviceSend(v)
    \/ ReaderRecv

FaultSpec == Streaming /\ [][FaultNext]_vars

-----------------------------------------------------------------------------
(* Properties of the reader's error handling, checked under FaultSpec *)

\* the processing of value d fails: it is no state frame, or an observer of
\* one of its paths raises
ProcessingFails(d, subs) ==
    \/ ~IsDict(d)
    \/ d = FrameMissingFields
    \/ \E p \in DOMAIN subs :
          /\ SeqContains(GetJsonPaths(d, ""), p)
          /\ \E i \in 1..Len(subs[p]) : subs[p][i] \in Raising

\* C26: the reader loop does not terminate and keeps delivering later
\* frames after a frame whose processing fails: a subscriber callback that
\* raises, a decoded value that is not a JSON object, or an Actions
\* envelope with missing fields never propagates an exception out of the
\* reader loop.  (The reader stays in its loop, every value the device has
\* sent is handed to ingestion once it has been read, and a state frame
\* read after a failure is merged.)
C26_ReaderSurvives ==
    /\ reader = "recv"
    /\ wire = << >> => delivered = device_sent
    /\ (op.name = "recv" /\ delivered # << >>
          /\ IsStateFrame(delivered[Len(delivered)]))
        => json_state = Merge(op.pre_state, delivered[Len(delivered)])

\* the device has sent the number 12 and then X.Y.Z = 9, observed by a
\* callback that raises: both were handed over, the second was merged and
\* its failure logged, and the reader waits for the next read
C26_Witness ==
    /\ device_sent = <<JInt(12), FrameZ>>
    /\ delivered = device_sent
    /\ wire = << >>
    /\ op.name = "recv"
    /\ "X.Y.Z" \in DOMAIN data_subscriptions
    /\ data_subscriptions["X.Y.Z"] = <<"R">>
    /\ ProcessingFails(FrameZ, data_subscriptions)
    /\ logged = <<"exception">>
    /\ json_state = FrameZ
    /\ reader = "recv"

-----------------------------------------------------------------------------
(* Properties of logout against the reconnection loop, checked under       *)
(* ConnSpec                                                                *)

\* logout() has returned to async_unload_entry, which logs in no more
LoggedOut == caller = "unloaded"

\* C27: if logout() is called while the reconnection loop is retrying, the
\* loop stops: after logout returns, no further login or upgrade attempt is
\* issued and the connection state never becomes true again without a new
\* explicit login by the caller.
C27_AsStated ==
    LoggedOut =>
        /\ op.name \notin {"reconnect_login", "reconnect_upgrade_begin",
                           "reconnect_upgrade"}
        /\ ~ws_client_connected

-----------------------------------------------------------------------------
(* SessionSpec: the whole session, from async_setup_entry to the unload,   *)
(* with observers, frames from the device, drops and reconnections.        *)

SessionNext ==
    \/ LifeCycle
    \/ SubscribeData("X.Y.Z", "C1", FALSE)
    \/ SubscribeConnection("K1", FALSE)
    \/ Len(device_sent) < MaxFrames /\ DeviceSend(FrameZ)
    \/ ReaderRecv
    \/ \E o \in GetOutcomes, d \in {"new", "old"} : LogoutDuringRecv(o, d)

SessionSpec == ConnInit /\ [][SessionNext]_vars

\* the event loop runs the tasks that are ready: the handler and the
\* reconnection loop
LoopSteps ==
    \/ ReaderStart
    \/ ReaderClosed
    \/ \E o \in LoginOutcomes : ReconnectLogin(o)
    \/ ReconnectUpgradeBegin
    \/ \E o \in UpgradeOutcomes : ReconnectUpgradeEnd(o)
    \/ ReconnectSleep

FairConnSpec == ConnInit /\ [][ConnNext]_vars /\ WF_vars(LoopSteps)

-----------------------------------------------------------------------------
(* Properties of the teardown, checked under SessionSpec and FairConnSpec *)

\* C28: once logout() has returned, the State Document is empty and stays
\* empty, and no data callback is invoked, until a new login: a frame that
\* the reader is still receiving or has queued when logout runs is never
\* merged into the cleared document.
C28_AsStated ==
    LoggedOut =>
        /\ json_state = EmptyDict
        /\ op.name \in {"recv", "logout_during_recv"} => calls = << >>

\* C29: after logout() is called with an open stream, the socket is
\* eventually closed, the reader task eventually stops and the socket
\* handle is released; the teardown thread that performs the close
\* terminates and does not block forever.
C29_AsStated ==
    (op.name = "logout" /\ raised = "none" /\ socket = "open"
        /\ ws_client = "client")
    ~> (/\ socket # "open"
        /\ reader \notin {"start", "recv"}
        /\ ws_client = "none"
        /\ hist.teardown = "done")

-----------------------------------------------------------------------------
(* Properties of the reconnection, checked under SessionSpec *)

\* the steps from the closure of the stream to the start of the new reader
ReconnectOps == {"reader_closed", "reconnect_login", "reconnect_upgrade_begin",
                 "reconnect_upgrade", "reconnect_sleep", "reader_start"}

\* the callbacks registered for path when the stream dropped
RegisteredAtDrop(path) ==
    IF path \in DOMAIN hist.drop_subs THEN hist.drop_subs[path] ELSE << >>

\* C30: a stream closure followed by any number of failed and successful
\* reconnection attempts leaves the data-subscription registry, the
\* connection-subscription list and the contents of the State Document
\* unchanged; after a reconnect, a frame containing a subscribed path still
\* invokes the callbacks that were registered before the drop.
C30_ReconnectKeepsObservers ==
    /\ [][op'.name \in ReconnectOps =>
            /\ json_state' = json_state
            /\ data_subscriptions' = data_subscriptions
            /\ connection_subscriptions' = connection_subscriptions]_vars
    /\ [](op.name = "recv" /\ reconnect_task = "done" =>
            \A i \in 1..Len(RegisteredAtDrop("X.Y.Z")) :
                /\ i <= Len(calls)
                /\ calls[i] = Call(RegisteredAtDrop("X.Y.Z")[i], "X.Y.Z",
                                   GetValueByJsonPath(delivered[Len(delivered)],
                                                      "X.Y.Z")))

\* the document held X.Y.Z = 9 and C1 observed X.Y.Z when the stream
\* dropped; after the reconnect the first frame of the new stream is merged
\* into the document that was kept and C1 is called
C30_Witness ==
    /\ op.name = "recv"
    /\ reconnect_task = "done"
    /\ hist.drop_subs = [p \in {"X.Y.Z"} |-> <<"C1">>]
    /\ connection_subscriptions = <<"K1">>
    /\ op.pre_state = FrameZ
    /\ Len(delivered) = 1
    /\ calls = <<Call("C1", "X.Y.Z", JInt(9))>>

-----------------------------------------------------------------------------
(* Properties of the reconnection attempts, checked under ConnSpec *)

\* a reconnection attempt has just failed: the login failed, or the login
\* succeeded and the upgrade failed
FailedAttempt ==
    \/ op.name = "reconnect_login" /\ op.arg \notin {"ok", "redirect_token"}
    \/ op.name = "reconnect_upgrade" /\ op.arg # "ok"

\* C31: every failed reconnection attempt (login failed, or login succeeded
\* but the upgrade failed) sets the connection state to false and delivers
\* connected=False to every connection subscriber before the next attempt
\* starts.
C31_AsStated ==
    FailedAttempt =>
        /\ ~ws_client_connected
        /\ notified = Notify(connection_subscriptions, FALSE)

\* the same for the attempts whose failure http_login and
\* async_upgrade_websocket return instead of raising
C31_ReturnedFailures ==
    (FailedAttempt /\ reconnect_task = "sleep") =>
        /\ ~ws_client_connected
        /\ notified = Notify(connection_subscriptions, FALSE)

\* the response of the last credential POST is an authentication failure:
\* an error status, or a response without the token header
AuthenticationFailed == loginResponse \in {"error", "no_token"}

\* C32: after a login attempt fails with an authentication failure (error
\* status on the credential POST, or missing token header), the client
\* does not issue another login attempt on its own; a new attempt happens
\* only when the caller asks for one.
C32_AsStated ==
    [][AuthenticationFailed =>
          ~(reconnect_task = "login" /\ reconnect_task' # "login")]_vars

\* C33: after a failed re-login attempt (connectivity failure or
\* authentication failure) the client holds no session credentials: the
\* token and cookie captured by the previous session are not used by any
\* later HTTP call or WebSocket handshake.
C33_AsStated ==
    (op.name = "reconnect_login" /\ op.arg \notin {"ok", "redirect_token"}) =>
        loginResponse \notin {"ok", "redirect"}

-----------------------------------------------------------------------------
(* The registry functions called from threads while the event loop thread  *)
(* dispatches a frame.  Between two callback invocations of the dispatch   *)
(* another thread can run a whole registry function.                       *)

\* threading.RLock.acquire() by thread t returns when the lock is free or
\* already held by t
CanAcquire(lock, t) == lock \in {"none", t}

\* "lock.acquire() ... lock.release()" without try/finally: the holder of
\* the lock after t's call returned or raised
AfterCall(lock, t, exception) == IF exception # "none" THEN t ELSE lock

\* __process_received_json_message up to the first callback: the merge and
\* the list of matching paths
DispatchBegin(json_message) ==
    /\ tasks["loop"].pc = "idle"
    /\ ActionsIn(json_message) = "no" /\ IsDict(json_message)
    /\ json_state' = Merge(json_state, json_message)
    /\ held' = HeldAfter(held, json_state, json_message)
    /\ tasks' = [tasks EXCEPT !["loop"] =
                    [pc |-> "dispatch", frame |-> json_message,
                     matching_paths |->
                         MatchingPaths(GetJsonPaths(json_message, ""),
                                       data_subscriptions),
                     i |-> 1, done |-> << >>,
                     started |-> data_subscriptions]]
    /\ op' = [BaseOp("dispatch_begin") EXCEPT !.frame = json_message]
    /\ calls' = << >> /\ notified' = << >> /\ logged' = << >> /\ sent' = << >>
    /\ raised' = "none"
    /\ UNCHANGED <<http_fallback, locks, data_subscriptions, connVars, readerVars>>

\* one turn of "for callback in self._data_subscriptions[path]", or the
\* step to the next path, or the end of the function
DispatchStep ==
    /\ tasks["loop"].pc = "dispatch"
    /\ LET task == tasks["loop"]
           finish(log) ==
               /\ tasks' = [tasks EXCEPT !["loop"] = Idle]
               /\ op' = [BaseOp("dispatch_end") EXCEPT
                           !.frame = task.frame, !.pre_subs = task.started]
               /\ logged' = log
       IN  IF task.matching_paths = << >>
           THEN /\ finish(<< >>)
                /\ calls' = task.done
                /\ UNCHANGED data_subscriptions
           ELSE LET path == Head(task.matching_paths)
                    value == GetValueByJsonPath(task.frame, path)
                IN  IF task.i > Len(data_subscriptions[path])
                    THEN /\ tasks' = [tasks EXCEPT !["loop"] =
                                        [task EXCEPT
                                           !.matching_paths = Tail(@), !.i = 1]]
                         /\ UNCHANGED <<data_subscriptions, op, calls, logged>>
                    ELSE LET callback == data_subscriptions[path][task.i]
                             r == InvokeDataCallback(data_subscriptions,
                                                     callback, path, value)
                             now == Append(task.done, Call(callback, path, value))
                         IN  /\ data_subscriptions' = r.subs
                             /\ IF r.raised # "none"
                                THEN finish(<<"exception">>) /\ calls' = now
                                ELSE /\ tasks' = [tasks EXCEPT !["loop"] =
                                            [task EXCEPT !.i = @ + 1,
                                                         !.done = now]]
                                     /\ UNCHANGED <<op, calls, logged>>
    /\ UNCHANGED <<http_fallback, locks, json_state, held, notified, sent,
                   raised, connVars, readerVars>>

\* thread t calls subscribe_data_updates
ThreadSubscribeData(t, path, callback, trigger_current_value) ==
    /\ tasks[t].pc = "idle"
    /\ CanAcquire(locks.data, t)
    /\ TotalRegs(data_subscriptions) < MaxRegs
    /\ \E r \in {SubscribeDataUpdates(json_state, data_subscriptions, path,
                                      callback, trigger_current_value)} :
        /\ data_subscriptions' = r.subs
        /\ calls' = r.calls
        /\ raised' = r.raised
        /\ locks' = [locks EXCEPT !.data = AfterCall(@, t, r.raised)]
    /\ op' = [BaseOp("subscribe") EXCEPT !.path = path, !.cb = callback,
                                         !.trigger = trigger_current_value,
                                         !.arg = t]
    /\ notified' = << >> /\ logged' = << >> /\ sent' = << >>
    /\ UNCHANGED <<http_fallback, tasks, json_state, held, connVars, readerVars>>

\* thread t calls unsubscribe_data_updates
ThreadUnsubscribeData(t, path, callback) ==
    /\ tasks[t].pc = "idle"
    /\ CanAcquire(locks.data, t)
    /\ \E r \in {UnsubscribeDataUpdates(data_subscriptions, path, callback)} :
        /\ data_subscriptions' = r.subs
        /\ raised' = r.raised
        /\ locks' = [locks EXCEPT !.data = AfterCall(@, t, r.raised)]
    /\ op' = [BaseOp("unsubscribe") EXCEPT !.path = path, !.cb = callback,
                                           !.arg = t]
    /\ calls' = << >> /\ notified' = << >> /\ logged' = << >> /\ sent' = << >>
    /\ UNCHANGED <<http_fallback, tasks, json_state, held, connVars, readerVars>>

\* thread t calls a registry function while another thread holds the lock:
\* it waits in acquire()
ThreadWaits(t) ==
    /\ tasks[t].pc = "idle"
    /\ ~CanAcquire(locks.data, t)
    /\ tasks' = [tasks EXCEPT ![t] = [pc |-> "acquire"]]
    /\ UNCHANGED <<http_fallback, locks, dataVars, connVars, readerVars, op,
                   calls, notified, logged, sent, raised>>

LockPaths == {"X.Y.Z"}
LockCallbacks == {"C1", "C2", "R"}
LockFrames == {FrameZ}

LockNext ==
    \/ \E f \in LockFrames : DispatchBegin(f)
    \/ DispatchStep
    \/ \E t \in Threads, p \in LockPaths, c \in LockCallbacks, g \in BOOLEAN :
           ThreadSubscribeData(t, p, c, g)
    \/ \E t \in Threads, p \in LockPaths, c \in LockCallbacks :
           ThreadUnsubscribeData(t, p, c)
    \/ \E t \in Threads : ThreadWaits(t)

LockInit ==
    /\ http_fallback = TRUE
    /\ json_state = EmptyDict
    /\ ConstructedRest

LockSpec == LockInit /\ [][LockNext]_vars

\* the event loop thread is inside the loops of lines 334-337
Dispatching ==
    /\ tasks["loop"].pc = "dispatch"
    /\ tasks["loop"].matching_paths # << >>

\* C34: while the dispatch of a frame iterates over a path's callback list,
\* no other thread's subscribe or unsubscribe mutates the data registry (the
\* dispatch would hold the registry's lock)
C34_AsStated ==
    [][(Dispatching /\ tasks' = tasks) =>
           data_subscriptions' = data_subscriptions]_vars

-----------------------------------------------------------------------------
(* put_data called by several coroutines of the event loop.  A coroutine   *)
(* gives way to the others where it awaits: at the lock, inside send and   *)
(* in sleep.                                                                *)

InsideLock == {"locked", "sleep"}

\* "async with self._put_data_lock" without regard for the holder
PutEnter_Unguarded(w, data_path, json_data) ==
    /\ tasks[w].pc = "idle"
    /\ locks' = [locks EXCEPT !.put = w]
    /\ tasks' = [tasks EXCEPT ![w] =
                    [pc |-> "locked", data_path |-> data_path,
                     json_data |-> json_data]]
    /\ op' = [BaseOp("put_enter") EXCEPT !.arg = w, !.frame = json_data]
    /\ calls' = << >> /\ notified' = << >> /\ logged' = << >> /\ sent' = << >>
    /\ raised' = "none"
    /\ UNCHANGED <<http_fallback, dataVars, connVars, readerVars>>

\* coroutine w calls put_data(data_path, json_data) and reaches
\* "async with self._put_data_lock": it takes the lock when it is free and
\* waits for it otherwise
PutEnter(w, data_path, json_data) ==
    /\ tasks[w].pc = "idle"
    /\ locks' = IF locks.put = "none" THEN [locks EXCEPT !.put = w] ELSE locks
    /\ tasks' = [tasks EXCEPT ![w] =
                    [pc |-> IF locks.put = "none" THEN "locked" ELSE "waiting",
                     data_path |-> data_path, json_data |-> json_data]]
    /\ op' = [BaseOp("put_enter") EXCEPT !.arg = w, !.frame = json_data]
    /\ calls' = << >> /\ notified' = << >> /\ logged' = << >> /\ sent' = << >>
    /\ raised' = "none"
    /\ UNCHANGED <<http_fallback, dataVars, connVars, readerVars>>

\* the lock was released and waiter w is woken
PutAcquire(w) ==
    /\ tasks[w].pc = "waiting"
    /\ locks.put = "none"
    /\ locks' = [locks EXCEPT !.put = w]
    /\ tasks' = [tasks EXCEPT ![w].pc = "locked"]
    /\ op' = [BaseOp("put_acquire") EXCEPT !.arg = w]
    /\ calls' = << >> /\ notified' = << >> /\ logged' = << >> /\ sent' = << >>
    /\ raised' = "none"
    /\ UNCHANGED <<http_fallback, dataVars, connVars, readerVars>>

\* the body of the "async with" up to its next await: the send, then sleep;
\* or the POST.  An exception leaves the "async with" and releases the lock.
PutBody(w, outcome) ==
    /\ tasks[w].pc = "locked"
    /\ \E r \in {PutData(ws_client_connected, ws_client, socket, loginResponse,
                         tasks[w].data_path, tasks[w].json_data, outcome)} :
        /\ sent' = r.sent
        /\ logged' = r.logged
        /\ raised' = r.raised
        /\ IF r.raised = "none" /\ ws_client_connected /\ ws_client # "none"
           THEN /\ tasks' = [tasks EXCEPT ![w].pc = "sleep"]
                /\ UNCHANGED locks
           ELSE /\ tasks' = [tasks EXCEPT ![w] = Idle]
                /\ locks' = [locks EXCEPT !.put = "none"]
    /\ op' = [BaseOp("put_body") EXCEPT !.arg = w, !.frame = tasks[w].json_data]
    /\ calls' = << >> /\ notified' = << >>
    /\ UNCHANGED <<http_fallback, dataVars, connVars, readerVars>>

\* asyncio.sleep(0.01) is over: the "async with" ends and releases the lock
PutRelease(w) ==
    /\ tasks[w].pc = "sleep"
    /\ tasks' = [tasks EXCEPT ![w] = Idle]
    /\ locks' = [locks EXCEPT !.put = "none"]
    /\ op' = [BaseOp("put_release") EXCEPT !.arg = w]
    /\ calls' = << >> /\ notified' = << >> /\ logged' = << >> /\ sent' = << >>
    /\ raised' = "none"
    /\ UNCHANGED <<http_fallback, dataVars, connVars, readerVars>>

WritePaths == {"Device.ZoneOutputs", "Device.ZoneInputs"}
WriteValues == {Obj1("Volume", JInt(1)), Obj1("Mute", JInt(0))}

WriteNext ==
    \/ \E w \in Writers, p \in WritePaths, v \in WriteValues : PutEnter(w, p, v)
    \/ \E w \in Writers : PutAcquire(w)
    \/ \E w \in Writers : PutBody(w, "ok")
    \/ \E w \in Writers : PutRelease(w)
    \/ DeviceClose

WriteSpec == Streaming /\ [][WriteNext]_vars

\* C35: at most one put_data caller is between acquiring the write lock and
\* the end of its send, that caller is the holder of the lock, and what
\* it sends is the one whole serialization of its own fragment
C35_WritersExcluded ==
    /\ \A w1, w2 \in Writers :
          (tasks[w1].pc \in InsideLock /\ tasks[w2].pc \in InsideLock) => w1 = w2
    /\ \A w \in Writers : tasks[w].pc \in InsideLock => locks.put = w
    /\ (op.name = "put_body" /\ raised = "none") =>
          sent = <<Ws(Dumps(op.frame))>>

\* one caller has sent and still holds the lock while the other waits for it
C35_Witness ==
    /\ tasks["W1"].pc = "sleep"
    /\ tasks["W2"].pc = "waiting"
    /\ op.name = "put_enter" /\ op.arg = "W2"
    /\ locks.put = "W1"

-----------------------------------------------------------------------------
(* Unsubscription *)

\* the registrations of a list that are not callback x, in order
Others(s, x) == SelectSeq(s, LAMBDA c : c # x)

\* C36: unsubscribe_data_updates(p, C) with C registered n >= 1 times under
\* p leaves n-1 registrations of C under p and every other callback and
\* every other path as they were; under a path that was never subscribed it
\* changes nothing and does not raise
C36_RemovesOne ==
    op.name = "unsubscribe" =>
        LET before == Registrations(op.pre_subs, op.path)
            after == Registrations(data_subscriptions, op.path)
            n == CountIn(before, op.cb)
        IN  /\ n >= 1 =>
                /\ raised = "none"
                /\ CountIn(after, op.cb) = n - 1
                /\ Others(after, op.cb) = Others(before, op.cb)
                /\ DOMAIN data_subscriptions = DOMAIN op.pre_subs
                /\ \A p \in DOMAIN op.pre_subs \ {op.path} :
                      data_subscriptions[p] = op.pre_subs[p]
            /\ op.path \notin DOMAIN op.pre_subs =>
                /\ raised = "none"
                /\ data_subscriptions = op.pre_subs

\* C1 was registered twice under X.Y.Z and one registration is left
C36_Witness ==
    /\ op.name = "unsubscribe" /\ op.path = "X.Y.Z" /\ op.cb = "C1"
    /\ op.pre_subs = [p \in {"X.Y.Z"} |-> <<"C1", "C1">>]
    /\ data_subscriptions = [p \in {"X.Y.Z"} |-> <<"C1">>]

-----------------------------------------------------------------------------
(* Order of invocation *)

\* a is b with some elements left out
RECURSIVE IsSubsequence(_, _)
IsSubsequence(a, b) ==
    IF a = << >> THEN TRUE
    ELSE IF b = << >> THEN FALSE
    ELSE IF Head(a) = Head(b) THEN IsSubsequence(Tail(a), Tail(b))
    ELSE IsSubsequence(a, Tail(b))

\* the callbacks a list of invocations names for path, in order
RECURSIVE CalledFor(_, _)
CalledFor(invocations, path) ==
    IF invocations = << >> THEN << >>
    ELSE (IF Head(invocations).path = path THEN <<Head(invocations).cb>> ELSE << >>)
         \o CalledFor(Tail(invocations), path)

\* C37: a registration goes to the end of its path's list, and the dispatch
\* of one frame invokes the callbacks of a path in the order of that list,
\* which is the order of registration
C37_RegistrationOrder ==
    /\ (op.name = "subscribe" /\ op.cb \notin SelfUnsubscribing) =>
          Registrations(data_subscriptions, op.path) =
              Append(Registrations(op.pre_subs, op.path), op.cb)
    /\ op.name = "process" =>
          \A p \in DOMAIN op.pre_subs :
              IsSubsequence(CalledFor(calls, p), op.pre_subs[p])

\* C2 was registered before C1 under X.Y.Z and a frame invoked both
C37_Witness ==
    /\ op.name = "process"
    /\ op.pre_subs = [p \in {"X.Y.Z"} |-> <<"C2", "C1">>]
    /\ CalledFor(calls, "X.Y.Z") = <<"C2", "C1">>

-----------------------------------------------------------------------------
(* Unsubscription during a dispatch *)

\* no callback registered under a path of the frame raises
NoneRaises ==
    \A q \in DOMAIN op.pre_subs \cap PathsOf(op.frame) :
        Range(op.pre_subs[q]) \cap Raising = {}

\* C38: when a callback under path p unsubscribes itself while the frame is
\* dispatched, every other callback registered once under p when the
\* dispatch started is still invoked exactly once for the frame
C38_AsStated ==
    (op.name = "process" /\ IsStateFrame(op.frame) /\ NoneRaises) =>
        \A p \in DOMAIN op.pre_subs \cap PathsOf(op.frame) :
            Range(op.pre_subs[p]) \cap SelfUnsubscribing # {} =>
                \A c \in PlainCallbacks :
                    CountIn(op.pre_subs[p], c) = 1 => DueDelivered(c, p)

-----------------------------------------------------------------------------
(* Release of the registry locks *)

\* C39: the registry functions release the lock on every exit, so a thread
\* that calls one of them never waits for a lock that no call in progress
\* holds
C39_AsStated == \A t \in Threads : tasks[t].pc # "acquire"

-----------------------------------------------------------------------------
(* One reader, one reconnection loop *)

ReaderActive == reader \in {"start", "recv"}
LoopActive == reconnect_task \in {"login", "upgrade", "connecting", "sleep"}

\* C40: at most one __ws_handler task and at most one reconnect_coroutine
\* task are alive; a closure the reader observes ends the reader and starts
\* the one loop, a successful reconnection ends the loop and starts the one
\* reader on the new socket; and the frames handed to ingestion are a prefix
\* of what the device sent on the socket, so none is ingested twice
C40_OneReaderOneLoop ==
    /\ hist.readers = (IF ReaderActive THEN 1 ELSE 0)
    /\ hist.loops = (IF LoopActive THEN 1 ELSE 0)
    /\ ~(ReaderActive /\ LoopActive)
    /\ op.name = "reader_closed" => (hist.readers = 0 /\ hist.loops = 1)
    /\ (op.name = "reconnect_upgrade" /\ op.arg = "ok") =>
          (hist.readers = 1 /\ hist.loops = 0 /\ socket \in {"open", "closed"})
    /\ Len(delivered) <= Len(device_sent)
    /\ delivered = SubSeq(device_sent, 1, Len(delivered))

\* after a closure and a successful reconnection the new reader has ingested
\* the frame the device sent on the new socket
C40_Witness ==
    /\ op.name = "recv"
    /\ reconnect_task = "done"
    /\ hist.readers = 1 /\ hist.loops = 0
    /\ device_sent = <<FrameZ>>
    /\ delivered = <<FrameZ>>

====
